---------------------------- MODULE Spec2Model ----------------------------
(***************************************************************************)
(* Model of the falling-block game engine of src/game.py (TetrominoGame)   *)
(* together with the driver steps of src/main.py and src/eval.py that call *)
(* it.  Rows are indexed bottom-to-top from 0, columns from 0, exactly as  *)
(* in the source; a position is <<y, x>>.  The board is a sequence of Rows *)
(* rows, so source row r is board[r + 1] and source column c is            *)
(* board[r + 1][c + 1].                                                    *)
(***************************************************************************)
EXTENDS Integers, Sequences, FiniteSets, TLC

(***************************************************************************)
(* Program constants                                                       *)
(***************************************************************************)
Rows == 40

Cols == 10

SpawnRow == 19

SpawnCol == 4

B2B_BONUS == 1

COMBO_TABLE == <<0, 0, 1, 1, 1, 2, 2, 3, 3, 4, 4, 4, 5>>

ATTACK_TABLE == <<0, 1, 2, 4, 0, 2, 4, 6, 10>>

Pieces == {"i", "j", "l", "s", "z", "o", "t"}

Tags == Pieces \cup {"g", ""}

(***************************************************************************)
(* Bounds of the model                                                     *)
(***************************************************************************)
\* number of engine calls explored from construction
MaxSteps == 4

\* longest pending-garbage queue the driver builds up
MaxPending == 2

\* line counts of the attacks the opponent side delivers
GarbageLines == {1, 10}

\* the columns randint(0, 9) is taken to return for the hole of a garbage row
HoleColumns == {0, 4, 9}

\* the seven-bag orders the queue is generated from (the bag repeats)
Bags == { <<"t", "i", "o", "l", "j", "s", "z">>,
          <<"i", "t", "s", "z", "o", "l", "j">>,
          <<"o", "j", "t", "i", "z", "s", "l">>,
          <<"s", "l", "i", "t", "j", "o", "z">>,
          <<"z", "o", "l", "j", "t", "i", "s">>,
          <<"l", "s", "z", "o", "i", "j", "t">>,
          <<"j", "z", "i", "s", "l", "t", "o">> }

(***************************************************************************)
(* Python helpers                                                          *)
(***************************************************************************)
\* the value None
None == <<>>

\* the value of an expression, computed once
Once(values) == CHOOSE v \in values : TRUE

\* list indexing with a negative index counting from the end
PyIdx(i, n) == IF i < 0 THEN i + n ELSE i

\* an index a list of length n accepts without IndexError
PyValid(i, n) == (-n <= i) /\ (i < n)

EmptyRow == [c \in 1..Cols |-> ""]

EmptyBoard == [r \in 1..Rows |-> EmptyRow]

\* self.board[y][x]
Cell(b, y, x) == b[PyIdx(y, Rows) + 1][PyIdx(x, Cols) + 1]

(***************************************************************************)
(* Piece geometry: get_filled                                              *)
(***************************************************************************)
\* the bounding-box rule shared by l, j, t, s, z
BoxInvalid(y, x, o) ==
    \/ o = 0 /\ (y <= -1 \/ x <= 0 \/ x >= 9)
    \/ o = 1 /\ (y <= 0 \/ x <= -1 \/ x >= 9)
    \/ o = 2 /\ (y <= 0 \/ x <= 0 \/ x >= 9)
    \/ o = 3 /\ (y <= 0 \/ x <= 0 \/ x >= 10)

\* the bounding-box rule of the o piece
BoxInvalidO(y, x) == x >= 9 \/ x <= -1 \/ y <= -1

\* the bounding-box rule of the i piece
BoxInvalidI(y, x, o) ==
    \/ o = 0 /\ (x <= 0 \/ x >= 8 \/ y <= -1)
    \/ o = 2 /\ (x <= 1 \/ x >= 9 \/ y <= -1)
    \/ o = 1 /\ (x <= -1 \/ x >= 10 \/ y <= 1)
    \/ o = 3 /\ (x <= -1 \/ x >= 10 \/ y <= 0)

\* cell offsets <<dy, dx>> per piece and orientation, in the listed order
Offsets(piece, o) ==
    CASE piece = "l" /\ o = 0 -> << <<0, -1>>, <<0, 0>>, <<0, 1>>, <<1, 1>> >>
      [] piece = "l" /\ o = 1 -> << <<1, 0>>, <<0, 0>>, <<-1, 0>>, <<-1, 1>> >>
      [] piece = "l" /\ o = 2 -> << <<-1, -1>>, <<0, -1>>, <<0, 0>>, <<0, 1>> >>
      [] piece = "l" /\ o = 3 -> << <<1, -1>>, <<1, 0>>, <<0, 0>>, <<-1, 0>> >>
      [] piece = "j" /\ o = 0 -> << <<0, -1>>, <<0, 0>>, <<0, 1>>, <<1, -1>> >>
      [] piece = "j" /\ o = 1 -> << <<1, 0>>, <<0, 0>>, <<-1, 0>>, <<1, 1>> >>
      [] piece = "j" /\ o = 2 -> << <<-1, 1>>, <<0, -1>>, <<0, 0>>, <<0, 1>> >>
      [] piece = "j" /\ o = 3 -> << <<-1, -1>>, <<1, 0>>, <<0, 0>>, <<-1, 0>> >>
      [] piece = "t" /\ o = 0 -> << <<0, -1>>, <<0, 0>>, <<0, 1>>, <<1, 0>> >>
      [] piece = "t" /\ o = 1 -> << <<1, 0>>, <<0, 0>>, <<-1, 0>>, <<0, 1>> >>
      [] piece = "t" /\ o = 2 -> << <<0, -1>>, <<0, 0>>, <<0, 1>>, <<-1, 0>> >>
      [] piece = "t" /\ o = 3 -> << <<-1, 0>>, <<0, 0>>, <<1, 0>>, <<0, -1>> >>
      [] piece = "s" /\ o = 0 -> << <<0, -1>>, <<0, 0>>, <<1, 0>>, <<1, 1>> >>
      [] piece = "s" /\ o = 1 -> << <<1, 0>>, <<0, 1>>, <<0, 0>>, <<-1, 1>> >>
      [] piece = "s" /\ o = 2 -> << <<0, 1>>, <<0, 0>>, <<-1, 0>>, <<-1, -1>> >>
      [] piece = "s" /\ o = 3 -> << <<1, -1>>, <<0, -1>>, <<0, 0>>, <<-1, 0>> >>
      [] piece = "z" /\ o = 0 -> << <<1, -1>>, <<1, 0>>, <<0, 0>>, <<0, 1>> >>
      [] piece = "z" /\ o = 1 -> << <<1, 1>>, <<0, 1>>, <<0, 0>>, <<-1, 0>> >>
      [] piece = "z" /\ o = 2 -> << <<0, -1>>, <<-1, 0>>, <<0, 0>>, <<-1, 1>> >>
      [] piece = "z" /\ o = 3 -> << <<1, 0>>, <<0, -1>>, <<0, 0>>, <<-1, -1>> >>
      [] piece = "o"          -> << <<0, 1>>, <<1, 0>>, <<0, 0>>, <<1, 1>> >>
      [] piece = "i" /\ o = 0 -> << <<0, -1>>, <<0, 0>>, <<0, 1>>, <<0, 2>> >>
      [] piece = "i" /\ o = 1 -> << <<1, 0>>, <<0, 0>>, <<-1, 0>>, <<-2, 0>> >>
      [] piece = "i" /\ o = 2 -> << <<0, -2>>, <<0, -1>>, <<0, 0>>, <<0, 1>> >>
      [] piece = "i" /\ o = 3 -> << <<2, 0>>, <<1, 0>>, <<0, 0>>, <<-1, 0>> >>
      [] OTHER -> None

\* get_filled(piece, position, orientation): the four cells, or None
get_filled(piece, position, orientation) ==
    LET y == position[1]
        x == position[2]
        off == Offsets(piece, orientation)
    IN  IF piece \notin {"o", "i"} /\ BoxInvalid(y, x, orientation) THEN None
        ELSE IF piece = "o" /\ BoxInvalidO(y, x) THEN None
        ELSE IF piece = "i" /\ BoxInvalidI(y, x, orientation) THEN None
        ELSE [k \in 1..Len(off) |-> <<y + off[k][1], x + off[k][2]>>]

\* the cells of a get_filled result as a set
CellSet(filled) == {filled[k] : k \in 1..Len(filled)}

(***************************************************************************)
(* The engine: one TetrominoGame instance is a record of its attributes.   *)
(* Two fields are not attributes: ret is the value the last move_* call    *)
(* returned and lock_ret the tuple the last lock_piece call returned;      *)
(* raised is "" until a call ends in an uncaught exception; settled is the *)
(* board as it was just before the last spawn wrote the active piece; spin *)
(* is the value the local variable spin had in the last lock_piece call.   *)
(***************************************************************************)
\* self.queue[i]; the generated queue repeats its seven-bag
QueueAt(queue, i) == queue[(i % Len(queue)) + 1]

\* self.board[pos[0]][pos[1]] = tag for every pos of filled
RECURSIVE Fill(_, _, _, _)
Fill(b, filled, tag, k) ==
    IF k > Len(filled) THEN b
    ELSE Fill([b EXCEPT ![PyIdx(filled[k][1], Rows) + 1][PyIdx(filled[k][2], Cols) + 1] = tag],
              filled, tag, k + 1)

\* Faulty variant of Fit: the test without "or pos in current", so that the
\* piece's own cells block it.
RECURSIVE FitNoSelf(_, _, _, _)
FitNoSelf(b, tiled, current, k) ==
    IF k > Len(tiled) THEN "fit"
    ELSE IF ~PyValid(tiled[k][1], Rows) \/ ~PyValid(tiled[k][2], Cols) THEN "IndexError"
    ELSE IF Cell(b, tiled[k][1], tiled[k][2]) = "" THEN FitNoSelf(b, tiled, current, k + 1)
    ELSE "blocked"

\* Faulty variant of Fit: the test without the occupancy check, so that any
\* footprint inside the board is accepted.
RECURSIVE FitAnywhere(_, _, _, _)
FitAnywhere(b, tiled, current, k) ==
    IF k > Len(tiled) THEN "fit"
    ELSE IF ~PyValid(tiled[k][1], Rows) \/ ~PyValid(tiled[k][2], Cols) THEN "IndexError"
    ELSE FitAnywhere(b, tiled, current, k + 1)

\* all(self.board[pos[0]][pos[1]] == '' or pos in current for pos in tiled),
\* evaluated cell by cell in list order: "fit", "blocked" or "IndexError"
RECURSIVE Fit(_, _, _, _)
Fit(b, tiled, current, k) ==
    IF k > Len(tiled) THEN "fit"
    ELSE IF ~PyValid(tiled[k][1], Rows) \/ ~PyValid(tiled[k][2], Cols) THEN "IndexError"
    ELSE IF Cell(b, tiled[k][1], tiled[k][2]) = "" \/ tiled[k] \in CellSet(current)
         THEN Fit(b, tiled, current, k + 1)
    ELSE "blocked"

\* Faulty variant of get_piece: the piece at the cursor, whatever was held.
get_piece_at_cursor(s, pos) == QueueAt(s.queue, s.queue_position + pos)

get_piece(s, pos) ==
    IF s.hold = FALSE \/ pos # 0 THEN QueueAt(s.queue, s.queue_position + pos)
    ELSE IF s.held_index + 1 = s.queue_position THEN QueueAt(s.queue, s.queue_position + pos)
    ELSE s.prev_held

\* Faulty variant of next_piece: the cells are written only when none of them
\* is occupied.
next_piece_guarded(s) ==
    LET s1 == [s EXCEPT !.queue_position = @ + 1,
                        !.piece_position = <<SpawnRow, SpawnCol>>,
                        !.piece_orientation = 0]
        piece == get_piece(s1, 0)
        filled == get_filled(piece, s1.piece_position, s1.piece_orientation)
        hit == \E k \in 1..Len(filled) : Cell(s1.board, filled[k][1], filled[k][2]) # ""
    IN  [s1 EXCEPT !.game_over = @ \/ hit,
                   !.settled = s1.board,
                   !.board = IF hit THEN s1.board ELSE Fill(s1.board, filled, piece, 1)]

\* Faulty variant of next_piece: the occupancy test is made after the cells are
\* written.
next_piece_late_check(s) ==
    LET s1 == [s EXCEPT !.queue_position = @ + 1,
                        !.piece_position = <<SpawnRow, SpawnCol>>,
                        !.piece_orientation = 0]
        piece == get_piece(s1, 0)
        filled == get_filled(piece, s1.piece_position, s1.piece_orientation)
        written == Fill(s1.board, filled, piece, 1)
        hit == \E k \in 1..Len(filled) : Cell(written, filled[k][1], filled[k][2]) # ""
    IN  [s1 EXCEPT !.game_over = @ \/ hit,
                   !.settled = s1.board,
                   !.board = written]

next_piece(s) ==
    LET s1 == [s EXCEPT !.queue_position = @ + 1,
                        !.piece_position = <<SpawnRow, SpawnCol>>,
                        !.piece_orientation = 0]
        piece == get_piece(s1, 0)
        filled == get_filled(piece, s1.piece_position, s1.piece_orientation)
        hit == \E k \in 1..Len(filled) : Cell(s1.board, filled[k][1], filled[k][2]) # ""
    IN  [s1 EXCEPT !.game_over = @ \/ hit,
                   !.settled = s1.board,
                   !.board = Fill(s1.board, filled, piece, 1)]

\* Faulty variant of change_board: the current position is not erased.
change_board_keep(s, new_pos, new_orientation) ==
    LET piece == get_piece(s, 0)
        new == get_filled(piece, new_pos, new_orientation)
    IN  Fill(s.board, new, piece, 1)

change_board(s, new_pos, new_orientation) ==
    LET piece == get_piece(s, 0)
        current == get_filled(piece, s.piece_position, s.piece_orientation)
        new == get_filled(piece, new_pos, new_orientation)
    IN  Fill(Fill(s.board, current, "", 1), new, piece, 1)

\* the common body of move_left, move_right and move_down: try the anchor
\* shifted by <<dy, dx>>
Translate(s, dy, dx) ==
    LET piece == get_piece(s, 0)
        current == get_filled(piece, s.piece_position, s.piece_orientation)
        target == <<s.piece_position[1] + dy, s.piece_position[2] + dx>>
        tiled == get_filled(piece, target, s.piece_orientation)
        fit == IF tiled = None THEN "blocked" ELSE Fit(s.board, tiled, current, 1)
    IN  CASE fit = "fit" ->
                [s EXCEPT !.board = change_board(s, target, s.piece_orientation),
                          !.piece_position = target,
                          !.previous_action = "move",
                          !.ret = "moved"]
          [] fit = "blocked" -> [s EXCEPT !.ret = "not moved"]
          [] OTHER -> [s EXCEPT !.raised = "IndexError"]

move_left(s) == Translate(s, 0, -1)

move_right(s) == Translate(s, 0, 1)

move_down(s) == Translate(s, -1, 0)

\* soft_drop is "for _ in range(0, 40): if self.move_down() == 'not moved': return".
\* While the loop runs, the board differs from the board at entry only in the
\* active piece, which sits k rows lower after k successful moves: a cell of the
\* board then holds the piece's tag inside the footprint k rows down and the
\* entry board's value with the piece erased elsewhere.  CanDown is the test
\* move_down makes on that board, so the loop is evaluated without building every
\* intermediate board.
CanDown(erased, piece, y, x, o, k) ==
    LET current == CellSet(get_filled(piece, <<y - k, x>>, o))
        tiled == get_filled(piece, <<y - k - 1, x>>, o)
    IN  /\ tiled # None
        /\ \A j \in 1..Len(tiled) :
               \/ (IF tiled[j] \in current THEN piece
                   ELSE Cell(erased, tiled[j][1], tiled[j][2])) = ""
               \/ tiled[j] \in current

\* the number of successful move_down calls of the loop
RECURSIVE DropRows(_, _, _, _, _, _)
DropRows(erased, piece, y, x, o, k) ==
    IF k < Rows /\ CanDown(erased, piece, y, x, o, k)
    THEN DropRows(erased, piece, y, x, o, k + 1)
    ELSE k

soft_drop(s) ==
    LET piece == get_piece(s, 0)
        y == s.piece_position[1]
        x == s.piece_position[2]
        o == s.piece_orientation
        erased == Fill(s.board, get_filled(piece, s.piece_position, o), "", 1)
        n == DropRows(erased, piece, y, x, o, 0)
    IN  IF n = 0 THEN [s EXCEPT !.ret = "None"]
        ELSE [s EXCEPT !.board = Fill(erased, get_filled(piece, <<y - n, x>>, o), piece, 1),
                       !.piece_position = <<y - n, x>>,
                       !.previous_action = "move",
                       !.ret = "None"]

(***************************************************************************)
(* Rotation: the ordered candidate tables of rotate_cw and rotate_ccw.     *)
(* Each candidate is the anchor offset <<dy, dx>>; the new orientation is  *)
(* one step clockwise, respectively counterclockwise.                      *)
(***************************************************************************)
KicksCW(piece, o) ==
    IF piece \notin {"o", "i"} THEN
        CASE o = 0 -> << <<0, 0>>, <<0, -1>>, <<1, -1>>, <<-2, 0>>, <<-2, -1>> >>
          [] o = 1 -> << <<0, 0>>, <<0, 1>>, <<-1, 1>>, <<2, 0>>, <<2, 1>> >>
          [] o = 2 -> << <<0, 0>>, <<0, 1>>, <<1, 1>>, <<-2, 0>>, <<-2, 1>> >>
          [] o = 3 -> << <<0, 0>>, <<0, -1>>, <<-1, -1>>, <<2, 0>>, <<2, -1>> >>
          [] OTHER -> <<>>
    ELSE IF piece = "i" THEN
        CASE o = 0 -> << <<0, 1>>, <<0, -1>>, <<0, 2>>, <<-1, -1>>, <<2, 2>> >>
          [] o = 1 -> << <<-1, 0>>, <<-1, -1>>, <<-1, 2>>, <<1, -1>>, <<-2, 2>> >>
          [] o = 2 -> << <<0, -1>>, <<0, 1>>, <<0, -2>>, <<1, 1>>, <<-2, -2>> >>
          [] o = 3 -> << <<1, 0>>, <<1, 1>>, <<1, -2>>, <<-1, 1>>, <<2, -2>> >>
          [] OTHER -> <<>>
    ELSE <<>>

KicksCCW(piece, o) ==
    IF piece \notin {"o", "i"} THEN
        CASE o = 0 -> << <<0, 0>>, <<0, 1>>, <<1, 1>>, <<-2, 0>>, <<-2, 1>> >>
          [] o = 3 -> << <<0, 0>>, <<0, -1>>, <<-1, -1>>, <<2, 0>>, <<2, -1>> >>
          [] o = 2 -> << <<0, 0>>, <<0, -1>>, <<1, -1>>, <<-2, 0>>, <<-2, -1>> >>
          [] o = 1 -> << <<0, 0>>, <<0, 1>>, <<-1, 1>>, <<2, 0>>, <<2, 1>> >>
          [] OTHER -> <<>>
    ELSE IF piece = "i" THEN
        CASE o = 0 -> << <<-1, 0>>, <<-1, -1>>, <<-1, 2>>, <<1, -1>>, <<-2, 2>> >>
          [] o = 3 -> << <<1, 0>>, <<-1, 0>>, <<2, 0>>, <<-1, -1>>, <<2, 2>> >>
          [] o = 2 -> << <<1, 0>>, <<1, 1>>, <<1, -2>>, <<-1, 1>>, <<2, -2>> >>
          [] o = 1 -> << <<0, -1>>, <<0, 1>>, <<0, -2>>, <<1, 1>>, <<-2, -2>> >>
          [] OTHER -> <<>>
    ELSE <<>>

\* Faulty variant of TryKicks: only the candidate at position k is tried.
TryKicksFirst(s, kicks, new_o, k) ==
    IF k > Len(kicks) THEN s
    ELSE LET piece == get_piece(s, 0)
             current == get_filled(piece, s.piece_position, s.piece_orientation)
             target == <<s.piece_position[1] + kicks[k][1], s.piece_position[2] + kicks[k][2]>>
             tiled == get_filled(piece, target, new_o)
             fit == IF tiled = None THEN "blocked" ELSE Fit(s.board, tiled, current, 1)
         IN  CASE fit = "fit" ->
                     [s EXCEPT !.board = change_board(s, target, new_o),
                               !.piece_orientation = new_o,
                               !.piece_position = target,
                               !.previous_action = "rotate"]
               [] fit = "blocked" -> s
               [] OTHER -> [s EXCEPT !.raised = "IndexError"]

\* the chain of "tiled = get_filled(...); if tiled is not None: if all(...):"
\* blocks of one orientation branch: apply the first candidate that fits
RECURSIVE TryKicks(_, _, _, _)
TryKicks(s, kicks, new_o, k) ==
    IF k > Len(kicks) THEN s
    ELSE LET piece == get_piece(s, 0)
             current == get_filled(piece, s.piece_position, s.piece_orientation)
             target == <<s.piece_position[1] + kicks[k][1], s.piece_position[2] + kicks[k][2]>>
             tiled == get_filled(piece, target, new_o)
             fit == IF tiled = None THEN "blocked" ELSE Fit(s.board, tiled, current, 1)
         IN  CASE fit = "fit" ->
                     [s EXCEPT !.board = change_board(s, target, new_o),
                               !.piece_orientation = new_o,
                               !.piece_position = target,
                               !.previous_action = "rotate"]
               [] fit = "blocked" -> TryKicks(s, kicks, new_o, k + 1)
               [] OTHER -> [s EXCEPT !.raised = "IndexError"]

\* Faulty variant of rotate_cw: previous_action is set whether or not a
\* candidate was applied.
rotate_cw_marks(s) ==
    [TryKicks(s, KicksCW(get_piece(s, 0), s.piece_orientation),
              (s.piece_orientation + 1) % 4, 1) EXCEPT !.ret = "None",
                                                        !.previous_action = "rotate"]

rotate_cw(s) ==
    [TryKicks(s, KicksCW(get_piece(s, 0), s.piece_orientation),
              (s.piece_orientation + 1) % 4, 1) EXCEPT !.ret = "None"]

rotate_ccw(s) ==
    [TryKicks(s, KicksCCW(get_piece(s, 0), s.piece_orientation),
              (s.piece_orientation + 3) % 4, 1) EXCEPT !.ret = "None"]

(***************************************************************************)
(* Hold                                                                    *)
(***************************************************************************)
\* Faulty variant of hold_piece: the swap branch without "self.queue_position -= 1".
hold_piece_no_rewind(s) ==
    IF s.hold = FALSE THEN
        LET current == get_filled(get_piece(s, 0), s.piece_position, s.piece_orientation)
            erased == [s EXCEPT !.board = Fill(s.board, current, "", 1), !.ret = "None"]
        IN  IF s.held = "" THEN
                LET s1 == [erased EXCEPT !.held = QueueAt(s.queue, s.queue_position),
                                         !.held_index = s.queue_position]
                IN  [next_piece(s1) EXCEPT !.hold = TRUE]
            ELSE
                LET s1 == [erased EXCEPT !.prev_held = s.held, !.hold = TRUE]
                    s3 == next_piece(s1)
                IN  [s3 EXCEPT !.held = QueueAt(s3.queue, s3.queue_position),
                               !.held_index = s3.queue_position]
    ELSE [s EXCEPT !.ret = "None"]

hold_piece(s) ==
    IF s.hold = FALSE THEN
        LET current == get_filled(get_piece(s, 0), s.piece_position, s.piece_orientation)
            erased == [s EXCEPT !.board = Fill(s.board, current, "", 1), !.ret = "None"]
        IN  IF s.held = "" THEN
                LET s1 == [erased EXCEPT !.held = QueueAt(s.queue, s.queue_position),
                                         !.held_index = s.queue_position]
                IN  [next_piece(s1) EXCEPT !.hold = TRUE]
            ELSE
                LET s1 == [erased EXCEPT !.prev_held = s.held, !.hold = TRUE]
                    s2 == next_piece(s1)
                    s3 == [s2 EXCEPT !.queue_position = @ - 1]
                IN  [s3 EXCEPT !.held = QueueAt(s3.queue, s3.queue_position),
                               !.held_index = s3.queue_position]
    ELSE [s EXCEPT !.ret = "None"]

(***************************************************************************)
(* Lock: spin classification, line clears, attack, garbage                 *)
(***************************************************************************)
\* Faulty variant of accept_pending: without "self.board.pop()", the board grows.
accept_pending_grows(b, no_lines, random) ==
    LET garbage == [c \in 1..Cols |-> IF c = random + 1 THEN "" ELSE "g"]
    IN  [r \in 1..(Len(b) + no_lines) |-> IF r <= no_lines THEN garbage ELSE b[r - no_lines]]

\* Faulty variant of accept_pending: randint is called inside the loop, each
\* garbage row gets a hole of its own (here: one column further right each time).
accept_pending_redrawn(b, no_lines, random) ==
    [r \in 1..Len(b) |->
        IF r <= no_lines
        THEN [c \in 1..Cols |-> IF c = ((random + no_lines - r) % Cols) + 1 THEN "" ELSE "g"]
        ELSE b[r - no_lines]]

\* for _ in range(0, no_lines): self.board.insert(0, garbage.copy()); self.board.pop()
RECURSIVE InsertGarbage(_, _, _)
InsertGarbage(b, garbage, no_lines) ==
    IF no_lines <= 0 THEN b
    ELSE InsertGarbage(SubSeq(<<garbage>> \o b, 1, Len(b)), garbage, no_lines - 1)

\* accept_pending(no_lines) with randint(0, 9) = random
accept_pending(b, no_lines, random) ==
    InsertGarbage(b, [c \in 1..Cols |-> IF c = random + 1 THEN "" ELSE "g"], no_lines)

\* Faulty variant of AcceptAll: pop() in place of pop(0), the newest entry is
\* accepted first.
RECURSIVE AcceptAllNewestFirst(_, _, _, _)
AcceptAllNewestFirst(b, pending, holes, k) ==
    IF k > Len(pending) THEN b
    ELSE accept_pending(AcceptAllNewestFirst(b, pending, holes, k + 1),
                        pending[k], holes[k])

\* while self.pending_garbage != []: pop(0) and accept it; holes[k] is the
\* column randint returns in the k-th call
RECURSIVE AcceptAll(_, _, _, _)
AcceptAll(b, pending, holes, k) ==
    IF k > Len(pending) THEN b
    ELSE AcceptAll(accept_pending(b, pending[k], holes[k]), pending, holes, k + 1)

RowFull(b, i) == \A c \in 1..Cols : b[PyIdx(i, Rows) + 1][c] # ""

\* Faulty variant of check_tiled: only the anchor row and the rows next to it are
\* scanned.
check_tiled_narrow(s) ==
    LET y == s.piece_position[1]
        scan == [k \in 1..3 |-> y - 2 + k]
    IN  SelectSeq(scan, LAMBDA i : RowFull(s.board, i))

check_tiled(s) ==
    LET y == s.piece_position[1]
        scan == [k \in 1..7 |-> y - 4 + k]
    IN  SelectSeq(scan, LAMBDA i : RowFull(s.board, i))

\* Faulty variant of check_t_spin: the corners of orientations 1 and 3 are swapped.
check_t_spin_swapped(s) ==
    LET y == s.piece_position[1]
        x == s.piece_position[2]
        b == s.board
        missing == {c \in {"tr", "tl", "br", "bl"} :
                      \/ c = "tr" /\ Cell(b, y + 1, x + 1) = ""
                      \/ c = "tl" /\ Cell(b, y + 1, x - 1) = ""
                      \/ c = "br" /\ Cell(b, y - 1, x + 1) = ""
                      \/ c = "bl" /\ Cell(b, y - 1, x - 1) = ""}
        o == s.piece_orientation
    IN  IF s.previous_action # "rotate" THEN "no"
        ELSE IF x = 0 THEN
            IF Cell(b, y - 1, x + 1) # "" /\ Cell(b, y + 1, x + 1) # "" THEN "t"
            ELSE IF Cell(b, y - 1, x + 1) # "" \/ Cell(b, y + 1, x + 1) # "" THEN "mini"
            ELSE "no"
        ELSE IF x = 9 THEN
            IF Cell(b, y - 1, x - 1) # "" /\ Cell(b, y + 1, x - 1) # "" THEN "t"
            ELSE IF Cell(b, y - 1, x - 1) # "" \/ Cell(b, y + 1, x - 1) # "" THEN "mini"
            ELSE "no"
        ELSE IF y = 0 THEN
            IF Cell(b, y + 1, x + 1) # "" \/ Cell(b, y + 1, x - 1) # "" THEN "mini"
            ELSE "no"
        ELSE IF Cardinality(missing) > 1 THEN "no"
        ELSE IF o = 0 /\ ("tr" \in missing \/ "tl" \in missing) THEN "mini"
        ELSE IF o = 1 /\ ("bl" \in missing \/ "tl" \in missing) THEN "mini"
        ELSE IF o = 2 /\ ("bl" \in missing \/ "br" \in missing) THEN "mini"
        ELSE IF o = 3 /\ ("tr" \in missing \/ "br" \in missing) THEN "mini"
        ELSE "t"

check_t_spin(s) ==
    LET y == s.piece_position[1]
        x == s.piece_position[2]
        b == s.board
        missing == {c \in {"tr", "tl", "br", "bl"} :
                      \/ c = "tr" /\ Cell(b, y + 1, x + 1) = ""
                      \/ c = "tl" /\ Cell(b, y + 1, x - 1) = ""
                      \/ c = "br" /\ Cell(b, y - 1, x + 1) = ""
                      \/ c = "bl" /\ Cell(b, y - 1, x - 1) = ""}
        o == s.piece_orientation
    IN  IF s.previous_action # "rotate" THEN "no"
        ELSE IF x = 0 THEN
            IF Cell(b, y - 1, x + 1) # "" /\ Cell(b, y + 1, x + 1) # "" THEN "t"
            ELSE IF Cell(b, y - 1, x + 1) # "" \/ Cell(b, y + 1, x + 1) # "" THEN "mini"
            ELSE "no"
        ELSE IF x = 9 THEN
            IF Cell(b, y - 1, x - 1) # "" /\ Cell(b, y + 1, x - 1) # "" THEN "t"
            ELSE IF Cell(b, y - 1, x - 1) # "" \/ Cell(b, y + 1, x - 1) # "" THEN "mini"
            ELSE "no"
        ELSE IF y = 0 THEN
            IF Cell(b, y + 1, x + 1) # "" \/ Cell(b, y + 1, x - 1) # "" THEN "mini"
            ELSE "no"
        ELSE IF Cardinality(missing) > 1 THEN "no"
        ELSE IF o = 0 /\ ("tr" \in missing \/ "tl" \in missing) THEN "mini"
        ELSE IF o = 1 /\ ("tr" \in missing \/ "br" \in missing) THEN "mini"
        ELSE IF o = 2 /\ ("bl" \in missing \/ "br" \in missing) THEN "mini"
        ELSE IF o = 3 /\ ("bl" \in missing \/ "tl" \in missing) THEN "mini"
        ELSE "t"

\* self.board.pop(i)
Pop(b, i) ==
    LET j == PyIdx(i, Len(b)) + 1
    IN  SubSeq(b, 1, j - 1) \o SubSeq(b, j + 1, Len(b))

\* Faulty variant of RemoveRows: the rows are popped from the lowest to the highest.
RECURSIVE RemoveRowsAscending(_, _, _)
RemoveRowsAscending(b, tiled, k) ==
    IF k = 0 THEN b
    ELSE RemoveRowsAscending(Append(Pop(b, tiled[Len(tiled) - k + 1]), EmptyRow), tiled, k - 1)

\* for i in range(0, len(tiled)): pop tiled[len - i - 1], append an empty row
RECURSIVE RemoveRows(_, _, _)
RemoveRows(b, tiled, k) ==
    IF k = 0 THEN b
    ELSE RemoveRows(Append(Pop(b, tiled[k]), EmptyRow), tiled, k - 1)

\* Faulty variant of Cancel: a cancelled entry is not taken off the attack.
RECURSIVE CancelKeepsAttack(_, _)
CancelKeepsAttack(attack, pending) ==
    IF attack # 0 /\ pending # <<>> THEN
        IF pending[1] <= attack THEN CancelKeepsAttack(attack, Tail(pending))
        ELSE CancelKeepsAttack(attack, [pending EXCEPT ![1] = @ - attack])
    ELSE <<attack, pending>>

\* the garbage-cancelling loop: <<attack left, pending left>>
RECURSIVE Cancel(_, _)
Cancel(attack, pending) ==
    IF attack # 0 /\ pending # <<>> THEN
        IF pending[1] <= attack THEN Cancel(attack - pending[1], Tail(pending))
        ELSE Cancel(attack, [pending EXCEPT ![1] = @ - attack])
    ELSE <<attack, pending>>

AllClear(b) == \A r \in 1..Rows : \A c \in 1..Cols : b[r][c] = ""

Min(a, b) == IF a <= b THEN a ELSE b

\* Faulty variant of LockNoClear: "if" in place of "while", so that one pending
\* entry is accepted per call.
LockNoClearOne(s, holes) ==
    [s EXCEPT !.current_combo = -1,
              !.board = IF s.pending_garbage = <<>> THEN @
                        ELSE accept_pending(@, s.pending_garbage[1], holes[1]),
              !.pending_garbage = IF @ = <<>> THEN @ ELSE Tail(@),
              !.lock_ret = <<0, <<>>, -1>>]

\* the branch of lock_piece taken when no row is full
LockNoClear(s, holes) ==
    [s EXCEPT !.current_combo = -1,
              !.board = AcceptAll(s.board, s.pending_garbage, holes, 1),
              !.pending_garbage = <<>>,
              !.lock_ret = <<0, <<>>, -1>>]

\* Faulty variant of LockClear: the combo counter is incremented by 2.
LockClearComboAhead(s, spin, tiled) ==
    LET n == Len(tiled)
        qualifies == n = 4 \/ spin = "t" \/ spin = "mini"
        b2b == IF qualifies /\ s.back_to_back /\ (spin # "mini" \/ n >= 2)
               THEN B2B_BONUS ELSE 0
        kind == IF spin = "t" \/ (spin = "mini" /\ n >= 2) THEN n + 4
                ELSE IF spin = "mini" THEN 4
                ELSE n - 1
        combo == s.current_combo + 2
        sum == b2b + ATTACK_TABLE[kind + 1] + COMBO_TABLE[Min(combo, 12) + 1]
        cleared == RemoveRows(s.board, tiled, n)
        attack == IF AllClear(cleared) THEN ATTACK_TABLE[8 + 1] ELSE sum
        placement_type == IF AllClear(cleared) THEN 8 ELSE kind
        left == Cancel(attack, s.pending_garbage)
    IN  [s EXCEPT !.back_to_back = qualifies,
                  !.current_combo = combo,
                  !.board = cleared,
                  !.pending_garbage = left[2],
                  !.sent_garbage = IF left[1] # 0 THEN Append(@, left[1]) ELSE @,
                  !.lock_ret = <<attack, tiled, placement_type>>]

\* Faulty variant of LockClear: the combo bonus is looked up before the counter is
\* incremented.
LockClearComboLate(s, spin, tiled) ==
    LET n == Len(tiled)
        qualifies == n = 4 \/ spin = "t" \/ spin = "mini"
        b2b == IF qualifies /\ s.back_to_back /\ (spin # "mini" \/ n >= 2)
               THEN B2B_BONUS ELSE 0
        kind == IF spin = "t" \/ (spin = "mini" /\ n >= 2) THEN n + 4
                ELSE IF spin = "mini" THEN 4
                ELSE n - 1
        combo == s.current_combo + 1
        sum == b2b + ATTACK_TABLE[kind + 1]
                   + COMBO_TABLE[PyIdx(Min(s.current_combo, 12), Len(COMBO_TABLE)) + 1]
        cleared == RemoveRows(s.board, tiled, n)
        attack == IF AllClear(cleared) THEN ATTACK_TABLE[8 + 1] ELSE sum
        placement_type == IF AllClear(cleared) THEN 8 ELSE kind
        left == Cancel(attack, s.pending_garbage)
    IN  [s EXCEPT !.back_to_back = qualifies,
                  !.current_combo = combo,
                  !.board = cleared,
                  !.pending_garbage = left[2],
                  !.sent_garbage = IF left[1] # 0 THEN Append(@, left[1]) ELSE @,
                  !.lock_ret = <<attack, tiled, placement_type>>]

\* Faulty variant of LockClear: the bonus does not wait for the flag to be set.
LockClearBonusAtOnce(s, spin, tiled) ==
    LET n == Len(tiled)
        qualifies == n = 4 \/ spin = "t" \/ spin = "mini"
        b2b == IF qualifies /\ (spin # "mini" \/ n >= 2)
               THEN B2B_BONUS ELSE 0
        kind == IF spin = "t" \/ (spin = "mini" /\ n >= 2) THEN n + 4
                ELSE IF spin = "mini" THEN 4
                ELSE n - 1
        combo == s.current_combo + 1
        sum == b2b + ATTACK_TABLE[kind + 1] + COMBO_TABLE[Min(combo, 12) + 1]
        cleared == RemoveRows(s.board, tiled, n)
        attack == IF AllClear(cleared) THEN ATTACK_TABLE[8 + 1] ELSE sum
        placement_type == IF AllClear(cleared) THEN 8 ELSE kind
        left == Cancel(attack, s.pending_garbage)
    IN  [s EXCEPT !.back_to_back = qualifies,
                  !.current_combo = combo,
                  !.board = cleared,
                  !.pending_garbage = left[2],
                  !.sent_garbage = IF left[1] # 0 THEN Append(@, left[1]) ELSE @,
                  !.lock_ret = <<attack, tiled, placement_type>>]

\* Faulty variant of LockClear: a clear that does not qualify leaves the flag as it was.
LockClearFlagSticks(s, spin, tiled) ==
    LET n == Len(tiled)
        qualifies == n = 4 \/ spin = "t" \/ spin = "mini"
        b2b == IF qualifies /\ s.back_to_back /\ (spin # "mini" \/ n >= 2)
               THEN B2B_BONUS ELSE 0
        kind == IF spin = "t" \/ (spin = "mini" /\ n >= 2) THEN n + 4
                ELSE IF spin = "mini" THEN 4
                ELSE n - 1
        combo == s.current_combo + 1
        sum == b2b + ATTACK_TABLE[kind + 1] + COMBO_TABLE[Min(combo, 12) + 1]
        cleared == RemoveRows(s.board, tiled, n)
        attack == IF AllClear(cleared) THEN ATTACK_TABLE[8 + 1] ELSE sum
        placement_type == IF AllClear(cleared) THEN 8 ELSE kind
        left == Cancel(attack, s.pending_garbage)
    IN  [s EXCEPT !.back_to_back = @ \/ qualifies,
                  !.current_combo = combo,
                  !.board = cleared,
                  !.pending_garbage = left[2],
                  !.sent_garbage = IF left[1] # 0 THEN Append(@, left[1]) ELSE @,
                  !.lock_ret = <<attack, tiled, placement_type>>]

\* Faulty variant of LockClear: an empty board does not override the attack.
LockClearNoAllClear(s, spin, tiled) ==
    LET n == Len(tiled)
        qualifies == n = 4 \/ spin = "t" \/ spin = "mini"
        b2b == IF qualifies /\ s.back_to_back /\ (spin # "mini" \/ n >= 2)
               THEN B2B_BONUS ELSE 0
        kind == IF spin = "t" \/ (spin = "mini" /\ n >= 2) THEN n + 4
                ELSE IF spin = "mini" THEN 4
                ELSE n - 1
        combo == s.current_combo + 1
        sum == b2b + ATTACK_TABLE[kind + 1] + COMBO_TABLE[Min(combo, 12) + 1]
        cleared == RemoveRows(s.board, tiled, n)
        attack == sum
        placement_type == IF AllClear(cleared) THEN 8 ELSE kind
        left == Cancel(attack, s.pending_garbage)
    IN  [s EXCEPT !.back_to_back = qualifies,
                  !.current_combo = combo,
                  !.board = cleared,
                  !.pending_garbage = left[2],
                  !.sent_garbage = IF left[1] # 0 THEN Append(@, left[1]) ELSE @,
                  !.lock_ret = <<attack, tiled, placement_type>>]

\* the branch of lock_piece taken when at least one row is full
LockClear(s, spin, tiled) ==
    LET n == Len(tiled)
        qualifies == n = 4 \/ spin = "t" \/ spin = "mini"
        b2b == IF qualifies /\ s.back_to_back /\ (spin # "mini" \/ n >= 2)
               THEN B2B_BONUS ELSE 0
        kind == IF spin = "t" \/ (spin = "mini" /\ n >= 2) THEN n + 4
                ELSE IF spin = "mini" THEN 4
                ELSE n - 1
        combo == s.current_combo + 1
        sum == b2b + ATTACK_TABLE[kind + 1] + COMBO_TABLE[Min(combo, 12) + 1]
        cleared == RemoveRows(s.board, tiled, n)
        attack == IF AllClear(cleared) THEN ATTACK_TABLE[8 + 1] ELSE sum
        placement_type == IF AllClear(cleared) THEN 8 ELSE kind
        left == Cancel(attack, s.pending_garbage)
    IN  [s EXCEPT !.back_to_back = qualifies,
                  !.current_combo = combo,
                  !.board = cleared,
                  !.pending_garbage = left[2],
                  !.sent_garbage = IF left[1] # 0 THEN Append(@, left[1]) ELSE @,
                  !.lock_ret = <<attack, tiled, placement_type>>]

\* Faulty variant of lock_piece: without "self.hold = False".
lock_piece_keeps_hold(s, holes) ==
    LET s1 == [s EXCEPT !.ret = "None"]
    IN  IF s.piece_position[1] + 3 >= Rows THEN [s1 EXCEPT !.raised = "IndexError"]
        ELSE
        LET spin == IF get_piece(s1, 0) = "t" THEN check_t_spin(s1) ELSE "no"
            tiled == check_tiled(s1)
            s2 == IF tiled = <<>> THEN LockNoClear(s1, holes) ELSE LockClear(s1, spin, tiled)
            s3 == next_piece([s2 EXCEPT !.previous_action = "lock"])
        IN  [s3 EXCEPT !.total_attack = @ + s3.lock_ret[1], !.spin = spin]

\* Faulty variant of lock_piece: "=" in place of "+=" on total_attack.
lock_piece_last_attack(s, holes) ==
    LET s1 == [s EXCEPT !.hold = FALSE, !.ret = "None"]
    IN  IF s.piece_position[1] + 3 >= Rows THEN [s1 EXCEPT !.raised = "IndexError"]
        ELSE
        LET spin == IF get_piece(s1, 0) = "t" THEN check_t_spin(s1) ELSE "no"
            tiled == check_tiled(s1)
            s2 == IF tiled = <<>> THEN LockNoClear(s1, holes) ELSE LockClear(s1, spin, tiled)
            s3 == next_piece([s2 EXCEPT !.previous_action = "lock"])
        IN  [s3 EXCEPT !.total_attack = s3.lock_ret[1], !.spin = spin]

\* Faulty variant of lock_piece: the pending garbage is accepted after a clearing
\* lock as well.
lock_piece_accepts_always(s, holes) ==
    LET s1 == [s EXCEPT !.hold = FALSE, !.ret = "None"]
    IN  IF s.piece_position[1] + 3 >= Rows THEN [s1 EXCEPT !.raised = "IndexError"]
        ELSE
        LET spin == IF get_piece(s1, 0) = "t" THEN check_t_spin(s1) ELSE "no"
            tiled == check_tiled(s1)
            s2 == IF tiled = <<>> THEN LockNoClear(s1, holes)
                  ELSE LET t == LockClear(s1, spin, tiled)
                       IN  [t EXCEPT !.board = AcceptAll(t.board, t.pending_garbage, holes, 1),
                                     !.pending_garbage = <<>>]
            s3 == next_piece([s2 EXCEPT !.previous_action = "lock"])
        IN  [s3 EXCEPT !.total_attack = @ + s3.lock_ret[1], !.spin = spin]

lock_piece(s, holes) ==
    LET s1 == [s EXCEPT !.hold = FALSE, !.ret = "None"]
    IN  IF s.piece_position[1] + 3 >= Rows THEN [s1 EXCEPT !.raised = "IndexError"]
        ELSE
        LET spin == IF get_piece(s1, 0) = "t" THEN check_t_spin(s1) ELSE "no"
            tiled == check_tiled(s1)
            s2 == IF tiled = <<>> THEN LockNoClear(s1, holes) ELSE LockClear(s1, spin, tiled)
            s3 == next_piece([s2 EXCEPT !.previous_action = "lock"])
        IN  [s3 EXCEPT !.total_attack = @ + s3.lock_ret[1], !.spin = spin]

hard_drop(s, holes) ==
    LET s1 == soft_drop(s)
    IN  IF s1.raised # "" THEN s1 ELSE lock_piece(s1, holes)

\* pending_garbage.extend([n]) followed by sent_garbage.clear()
receive(s, n) ==
    [s EXCEPT !.pending_garbage = Append(@, n), !.sent_garbage = <<>>]

\* TetrominoGame(queue)
NewGame(queue) ==
    LET s0 == [board |-> EmptyBoard, queue |-> queue, queue_position |-> -1,
               current_combo |-> -1, back_to_back |-> FALSE,
               piece_position |-> <<0, 0>>, piece_orientation |-> 0,
               hold |-> FALSE, held |-> "", held_index |-> -1, prev_held |-> "",
               sent_garbage |-> <<>>, pending_garbage |-> <<>>,
               previous_action |-> "", game_over |-> FALSE, total_attack |-> 0,
               ret |-> "None", lock_ret |-> <<0, <<>>, -1>>, raised |-> "",
               settled |-> EmptyBoard, spin |-> "no"]
    IN  next_piece(s0)

(***************************************************************************)
(* The live engine and its callers.  game is the TetrominoGame instance,   *)
(* op the name of the last call made on it, steps the number of calls.     *)
(***************************************************************************)
VARIABLES game, op, steps

vars == <<game, op, steps>>

Init ==
    /\ \E bag \in Bags : game = NewGame(bag)
    /\ op = "new"
    /\ steps = 0

\* a caller may make another call: the budget is left and no exception ended the run
CanCall == steps < MaxSteps /\ game.raised = ""

Call(name, s) ==
    /\ game' = s
    /\ op' = name
    /\ steps' = steps + 1

MoveLeft == CanCall /\ Call("move_left", move_left(game))

MoveRight == CanCall /\ Call("move_right", move_right(game))

MoveDown == CanCall /\ Call("move_down", move_down(game))

SoftDrop == CanCall /\ Call("soft_drop", soft_drop(game))

RotateCW == CanCall /\ Call("rotate_cw", rotate_cw(game))

RotateCCW == CanCall /\ Call("rotate_ccw", rotate_ccw(game))

HoldPiece == CanCall /\ Call("hold_piece", hold_piece(game))

HardDrop ==
    /\ CanCall
    /\ \E holes \in [1..Len(game.pending_garbage) -> HoleColumns] :
           Call("hard_drop", hard_drop(game, holes))

\* the driver's exchange between two placements: one attack of the opponent is
\* appended to the incoming queue and the outgoing queue is emptied
ReceiveGarbage ==
    /\ CanCall
    /\ op \in {"new", "hard_drop", "receive"}
    /\ Len(game.pending_garbage) < MaxPending
    /\ \E n \in GarbageLines : Call("receive", receive(game, n))

Next ==
    \/ MoveLeft
    \/ MoveRight
    \/ MoveDown
    \/ SoftDrop
    \/ RotateCW
    \/ RotateCCW
    \/ HoldPiece
    \/ HardDrop
    \/ ReceiveGarbage

Spec == Init /\ [][Next]_vars

(***************************************************************************)
(* Games in progress.  An opening is a queue and the calls a driver has    *)
(* already made on a new game of that queue; the second specification      *)
(* starts from the states the openings lead to and continues with the same *)
(* calls.  A script entry is the input name of make_move ("left", "right", *)
(* "cw", "ccw", "hold"), "soft_drop", "hard_drop" with the columns randint *)
(* returns, or "receive" with the number of lines.                         *)
(***************************************************************************)
Input(call, s) ==
    CASE call[1] = "cw" -> rotate_cw(s)
      [] call[1] = "ccw" -> rotate_ccw(s)
      [] call[1] = "left" -> move_left(s)
      [] call[1] = "right" -> move_right(s)
      [] call[1] = "hold" -> hold_piece(s)
      [] call[1] = "soft_drop" -> soft_drop(s)
      [] call[1] = "hard_drop" -> hard_drop(s, call[2])
      [] call[1] = "receive" -> receive(s, call[2])

\* the name Call records for a script entry
InputOp(call) ==
    CASE call[1] = "cw" -> "rotate_cw"
      [] call[1] = "ccw" -> "rotate_ccw"
      [] call[1] = "left" -> "move_left"
      [] call[1] = "right" -> "move_right"
      [] call[1] = "hold" -> "hold_piece"
      [] OTHER -> call[1]

\* for i in inputs: ...; every call acts on the state the one before left
RECURSIVE Inputs(_, _)
Inputs(script, s) ==
    IF script = <<>> THEN s
    ELSE CHOOSE r \in {Inputs(Tail(script), t) : t \in {Input(Head(script), s)}} : TRUE

Left == <<"left">>
Right == <<"right">>
CW == <<"cw">>
CCW == <<"ccw">>
Hold == <<"hold">>
Sink == <<"soft_drop">>
Drop == <<"hard_drop", <<>>>>

DropOn(holes) == <<"hard_drop", holes>>

Receive(n) == <<"receive", n>>

\* n lines with their hole under the place an upright "i" reaches in two calls
Column(n) ==
    [queue |-> <<"o", "i", "t", "l", "j", "s", "z">>,
     script |-> <<Receive(n), Right, Right, Right, DropOn(<<5>>)>>]

\* a "t" above the hole at the left wall of one line
WallSlot ==
    [queue |-> <<"o", "t", "i", "l", "j", "s", "z">>,
     script |-> <<Receive(1), Right, Right, Right, DropOn(<<0>>), Left, Left, Left>>]

\* the same slot, with the "t" taken out of the hold by a swap
WallSlotSwapped ==
    [queue |-> <<"t", "o", "i", "l", "j", "s", "z">>,
     script |-> <<Hold, Receive(1), Right, Right, Right, DropOn(<<0>>), Hold,
                  Left, Left, Left>>]

\* a "t" turned into the wall slot has cleared one line, 2 and 3 lines have come
\* in; the "i" is one step from a column of four
SlotThenColumn ==
    [queue |-> <<"o", "t", "i", "l", "j", "s", "z">>,
     script |-> <<Receive(1), Receive(4), DropOn(<<0, 9>>), Left, Left, Left, Sink, CW,
                  Drop, Receive(2), Receive(3), CW, Right, Right, Right>>]

\* a "t" turned into the wall slot has cleared the upper of two lines; the hole
\* of the lower line is open to an upright "i"
SlotThenSingle ==
    [queue |-> <<"o", "t", "i", "l", "j", "s", "z">>,
     script |-> <<Receive(1), Receive(1), Right, Right, Right, DropOn(<<0, 5>>),
                  Left, Left, Left, Sink, CW, Drop>>]

\* SlotThenColumn with a lock that clears nothing between the two clears
SlotRestColumn ==
    [queue |-> <<"o", "t", "l", "i", "j", "s", "z">>,
     script |-> <<Receive(1), Receive(4), DropOn(<<0, 9>>), Left, Left, Left, Sink, CW,
                  Drop, Drop, CW, Right, Right, Right>>]

\* the "i" has cleared four lines; the "t" is above the wall slot
ColumnThenSlot ==
    [queue |-> <<"o", "i", "t", "l", "j", "s", "z">>,
     script |-> <<Receive(4), Receive(1), DropOn(<<9, 0>>), CW, Right, Right, Right, Right,
                  Drop, Left, Left, Left>>]

\* a "t" turned once, above a slot with three of its corners filled
Overhang ==
    [queue |-> <<"z", "t", "o", "i", "l", "j", "s">>,
     script |-> <<Receive(1), DropOn(<<2>>), Left, Left, CCW>>]

\* nineteen lines of garbage: the spawn rows rest on the stack
Brim ==
    [queue |-> <<"z", "j", "t", "o", "i", "l", "s">>,
     script |-> <<Receive(10), Receive(4), Receive(4), Receive(1), Right, Right,
                  DropOn(<<9, 9, 9, 9>>)>>]

\* nine pieces of two bags fill four rows but for the place of a "t"; ten lines
\* have come in
LastGap ==
    [queue |-> <<"i", "o", "j", "s", "z", "l", "t", "i", "j", "t", "o", "s", "z", "l">>,
     script |-> <<Left, Left, Left, Drop,
                  Left, Left, Left, Left, Drop,
                  Right, Drop,
                  Left, Drop,
                  Right, Right, Right, Drop,
                  Right, Right, CW, CW, Drop,
                  Right, Right, Right, Right, CCW, Right, Drop,
                  Drop,
                  Left, Left, Left, CW, CW, Drop,
                  Receive(10), Right, Right, Right, Right>>]

\* four lines with their holes apart; the "i" and the "j" have each cleared one,
\* the "l" is above the hole of the third
ComboRun ==
    [queue |-> <<"o", "i", "j", "l", "t", "s", "z">>,
     script |-> <<Receive(1), Receive(1), Receive(1), Receive(1), DropOn(<<0, 9, 2, 7>>),
                  Left, Left, Left, Sink, CCW, Drop,
                  Right, Right, Right, Right, CW, CW, Drop,
                  Left, Left, CCW>>]

\* six pieces of a bag on one line of garbage: the rows under and over a row with
\* a gap are full but for the last column, the "i" is upright one step from it
SplitRows ==
    [queue |-> <<"i", "o", "z", "j", "t", "l", "s">>,
     script |-> <<Left, Left, Drop,
                  Right, Right, Right, Drop,
                  Right, Drop,
                  Left, Left, Left, Drop,
                  Left, CW, CW, Drop,
                  Receive(1), Right, Right, CCW, DropOn(<<9>>),
                  Hold, CW, Right, Right, Right, Right>>]

Openings ==
    {Column(1), Column(2), Column(4), WallSlot, WallSlotSwapped, SlotThenColumn,
     SlotThenSingle, SlotRestColumn, ColumnThenSlot, Overhang, Brim, LastGap, ComboRun,
     SplitRows}

InitPlay ==
    /\ \E o \in Openings :
           /\ game = Inputs(o.script, NewGame(o.queue))
           /\ op = InputOp(o.script[Len(o.script)])
    /\ steps = 0

PlaySpec == InitPlay /\ [][Next]_vars

(***************************************************************************)
(* Vocabulary of the properties.  It is stated on cells and sets of cells, *)
(* not through the engine's own tests.                                     *)
(***************************************************************************)
\* the type of the active piece of engine state s
Active(s) == get_piece(s, 0)

\* the cells of a piece of the given type, anchor and orientation
Shape(piece, anchor, o) ==
    {<<anchor[1] + d[1], anchor[2] + d[2]>> : d \in CellSet(Offsets(piece, o))}

\* the cells the active piece of s occupies
Footprint(s) == Shape(Active(s), s.piece_position, s.piece_orientation)

\* the footprint of s shifted by <<dy, dx>>
Shifted(s, dy, dx) == {<<c[1] + dy, c[2] + dx>> : c \in Footprint(s)}

InBoard(c) == c[1] \in 0..(Rows - 1) /\ c[2] \in 0..(Cols - 1)

At(b, c) == b[c[1] + 1][c[2] + 1]

\* every cell of target is inside the board and empty or one of the active
\* piece's own cells
Free(s, target) ==
    \A c \in target : InBoard(c) /\ (At(s.board, c) = "" \/ c \in Footprint(s))

\* board after is board before with the cells of old emptied and then the
\* cells of new tagged (o and n name the two sets, so that each is computed once)
Repainted(after, before, old, new, tag) ==
    \A o \in {old} : \A n \in {new} :
        \A r \in 1..Rows :
            IF \E cell \in o \cup n : cell[1] = r - 1
            THEN \A c \in 1..Cols :
                     after[r][c] = IF <<r - 1, c - 1>> \in n THEN tag
                                   ELSE IF <<r - 1, c - 1>> \in o THEN ""
                                   ELSE before[r][c]
            ELSE after[r] = before[r]

\* t is s in every attribute (the value returned by the call aside)
SameState(s, t) == [t EXCEPT !.ret = s.ret] = s

Spawn == <<SpawnRow, SpawnCol>>

\* the step spawns a piece: a lock, or a hold that is not a no-op
SpawnStep == op' = "hard_drop" \/ (op' = "hold_piece" /\ ~game.hold)

\* the spawn that produced engine state t found one of its cells occupied
SpawnHit(t) == \E c \in Shape(Active(t), Spawn, 0) : At(t.settled, c) # ""

\* the sum of the entries k..Len(q) of q
RECURSIVE SumFrom(_, _)
SumFrom(q, k) == IF k > Len(q) THEN 0 ELSE q[k] + SumFrom(q, k + 1)

(***************************************************************************)
(* C1                                                                      *)
(***************************************************************************)
MoveContract(s, t, dy, dx) ==
    IF Free(s, Shifted(s, dy, dx))
    THEN /\ t.ret = "moved"
         /\ t.piece_position = <<s.piece_position[1] + dy, s.piece_position[2] + dx>>
         /\ t.piece_orientation = s.piece_orientation
         /\ Repainted(t.board, s.board, Footprint(s), Shifted(s, dy, dx), Active(s))
         /\ t.previous_action = "move"
    ELSE t.ret = "not moved"

\* C1: move_left, move_right and move_down succeed exactly when the footprint
\* shifted by one cell is inside the board and every target cell is empty or one
\* of the piece's own cells; on success the anchor moves by one cell, the
\* orientation stays, the board shows the piece at the new footprint only,
\* previous_action is 'move' and 'moved' is returned; otherwise 'not moved' is
\* returned.
C1_MoveContract ==
    [][/\ op' = "move_left" => MoveContract(game, game', 0, -1)
       /\ op' = "move_right" => MoveContract(game, game', 0, 1)
       /\ op' = "move_down" => MoveContract(game, game', -1, 0)]_vars

\* a move_down was refused above the floor: a locked cell blocks the piece
C1_Witness ==
    /\ op = "move_down"
    /\ game.ret = "not moved"
    /\ game.piece_position[1] >= 2
    /\ ~game.game_over

(***************************************************************************)
(* C2                                                                      *)
(***************************************************************************)
\* no candidate of the table fits
NoKickFits(s, kicks, new_o) ==
    \A k \in 1..Len(kicks) :
        ~Free(s, Shape(Active(s), <<s.piece_position[1] + kicks[k][1],
                                    s.piece_position[2] + kicks[k][2]>>, new_o))

\* the call named name cannot be satisfied in engine state s
Rejected(s, name) ==
    \/ name = "move_left" /\ ~Free(s, Shifted(s, 0, -1))
    \/ name = "move_right" /\ ~Free(s, Shifted(s, 0, 1))
    \/ name = "move_down" /\ ~Free(s, Shifted(s, -1, 0))
    \/ name \in {"rotate_cw", "rotate_ccw"} /\ Active(s) = "o"
    \/ name = "rotate_cw" /\ NoKickFits(s, KicksCW(Active(s), s.piece_orientation),
                                        (s.piece_orientation + 1) % 4)
    \/ name = "rotate_ccw" /\ NoKickFits(s, KicksCCW(Active(s), s.piece_orientation),
                                         (s.piece_orientation + 3) % 4)
    \/ name = "hold_piece" /\ s.hold

\* C2: a rejected action (a blocked move, a rotation for which no candidate
\* fits or any rotation of the o piece, a hold when hold was already used this
\* spawn) leaves board, anchor, orientation, queue cursor, held piece, combo,
\* back-to-back, garbage queues and previous_action as they were.
C2_RejectedUnchanged == [][Rejected(game, op') => SameState(game, game')]_vars

\* a rotation of the o piece was called after a soft drop and previous_action
\* still says 'move'
C2_Witness ==
    /\ op = "rotate_ccw"
    /\ Active(game) = "o"
    /\ game.previous_action = "move"
    /\ game.piece_position[1] < SpawnRow

(***************************************************************************)
(* C3                                                                      *)
(***************************************************************************)
\* move_right applied to left, the outcome of move_left in s, brings s back to
\* its anchor, orientation and board
RoundTrip(s, left) ==
    \A t \in {move_right(left)} :
        /\ t.piece_position = s.piece_position
        /\ t.piece_orientation = s.piece_orientation
        /\ t.board = s.board

\* no cell of the footprint is in column 0
OffLeftWall(s) == \A c \in Footprint(s) : c[2] > 0

\* C3 as stated: from any valid position of the active piece that is not
\* against the left wall, move_left then move_right returns the piece to its
\* anchor and orientation with the board as before.
C3_AsStated ==
    (~game.game_over /\ OffLeftWall(game)) => RoundTrip(game, move_left(game))

\* C3 amended: from any position where move_left succeeds (returns 'moved'),
\* move_left then move_right returns the piece to its anchor and orientation
\* with the board as before.
C3_RoundTrip ==
    \A left \in {move_left(game)} : left.ret = "moved" => RoundTrip(game, left)

\* a move_left has just succeeded next to locked cells and can succeed again
C3_Witness ==
    /\ op = "move_left"
    /\ game.ret = "moved"
    /\ move_left(game).ret = "moved"
    /\ game.settled # EmptyBoard

(***************************************************************************)
(* C4                                                                      *)
(***************************************************************************)
RotateContract(s, t, kicks, new_o) ==
    LET anchor(k) == <<s.piece_position[1] + kicks[k][1], s.piece_position[2] + kicks[k][2]>>
        fits == {k \in 1..Len(kicks) : Free(s, Shape(Active(s), anchor(k), new_o))}
    IN  IF fits = {} THEN SameState(s, t)
        ELSE LET first == CHOOSE k \in fits : \A j \in fits : k <= j
             IN  /\ t.piece_position = anchor(first)
                 /\ t.piece_orientation = new_o
                 /\ Repainted(t.board, s.board, Footprint(s),
                              Shape(Active(s), anchor(first), new_o), Active(s))
                 /\ t.previous_action = "rotate"

\* C4: rotate_cw and rotate_ccw try the five candidates of the piece family's
\* table for the current orientation in order and apply the first one whose
\* footprint is inside the board and collision-free; when none fits nothing
\* changes.
C4_FirstFittingKick ==
    [][/\ (op' = "rotate_cw" /\ Active(game) # "o") =>
              /\ Len(KicksCW(Active(game), game.piece_orientation)) = 5
              /\ RotateContract(game, game', KicksCW(Active(game), game.piece_orientation),
                                (game.piece_orientation + 1) % 4)
       /\ (op' = "rotate_ccw" /\ Active(game) # "o") =>
              /\ Len(KicksCCW(Active(game), game.piece_orientation)) = 5
              /\ RotateContract(game, game', KicksCCW(Active(game), game.piece_orientation),
                                (game.piece_orientation + 3) % 4)]_vars

\* the t piece, soft-dropped to the floor from its spawn column, was rotated
\* clockwise: of the candidates (0,0), (0,-1), (1,-1), (-2,0), (-2,-1) only the
\* third is inside the board, and it was applied
C4_Witness ==
    /\ op = "rotate_cw"
    /\ Active(game) = "t"
    /\ game.piece_position = <<1, SpawnCol - 1>>
    /\ game.piece_orientation = 1
    /\ game.previous_action = "rotate"

(***************************************************************************)
(* C5                                                                      *)
(***************************************************************************)
\* C5: hold is permitted once per spawn: a hold_piece with hold unused does
\* hold and marks hold used; while it is marked, a hold_piece changes nothing;
\* only lock_piece unmarks it, and every lock_piece does.
C5_HoldOncePerSpawn ==
    [][/\ (op' = "hold_piece" /\ game.hold) => SameState(game, game')
       /\ (op' = "hold_piece" /\ ~game.hold) => (game'.hold /\ game'.held = Active(game))
       /\ op' = "hard_drop" => ~game'.hold
       /\ op' \notin {"hold_piece", "hard_drop"} => game'.hold = game.hold]_vars

\* a hold_piece was called with the piece off its spawn cell and hold used: the
\* call did nothing
C5_Witness ==
    /\ op = "hold_piece"
    /\ game.hold
    /\ game.piece_position # Spawn

(***************************************************************************)
(* C6                                                                      *)
(***************************************************************************)
HoldContract(s, t) ==
    LET incoming == IF s.held = "" THEN QueueAt(s.queue, s.queue_position + 1) ELSE s.held
    IN  /\ t.held = Active(s)
        /\ Active(t) = incoming
        /\ t.piece_position = Spawn
        /\ t.piece_orientation = 0
        /\ t.queue_position = IF s.held = "" THEN s.queue_position + 1 ELSE s.queue_position
        /\ Repainted(t.board, s.board, Footprint(s), Shape(incoming, Spawn, 0), incoming)

\* C6: the first hold makes the current piece the held piece, takes it off the
\* board, advances the queue cursor by one and spawns the next queue piece; a
\* later hold takes the active piece off the board, makes it the held piece and
\* spawns the piece held before at the spawn cell in orientation 0, the queue
\* cursor ending where it was.
C6_HoldSwap == [][(op' = "hold_piece" /\ ~game.hold) => HoldContract(game, game')]_vars

\* a hold swapped the held piece back in
C6_Witness ==
    /\ op = "hold_piece"
    /\ game.prev_held # ""
    /\ Active(game) = game.prev_held
    /\ game.held # game.prev_held

(***************************************************************************)
(* C7                                                                      *)
(***************************************************************************)
\* C7 as stated: a spawn raises game-over if one of its cells is occupied and
\* only otherwise writes the cells, so that a colliding spawn overwrites nothing.
C7_AsStated ==
    [][SpawnStep =>
          /\ SpawnHit(game') => game'.game_over
          /\ IF SpawnHit(game') THEN game'.board = game'.settled
             ELSE Repainted(game'.board, game'.settled, {},
                            Shape(Active(game'), Spawn, 0), Active(game'))]_vars

\* C7 amended: a spawn raises game-over exactly if one of its cells is occupied,
\* and it writes the piece's cells to the board in both cases, so that a
\* colliding spawn overwrites the occupied cells.
C7_SpawnAlwaysCommits ==
    [][SpawnStep =>
          /\ game'.game_over = (game.game_over \/ SpawnHit(game'))
          /\ Repainted(game'.board, game'.settled, {},
                       Shape(Active(game'), Spawn, 0), Active(game'))]_vars

\* a lock has just spawned a piece onto an occupied cell: the game is over and the
\* cell now carries the piece's tag
C7_Witness ==
    /\ op = "hard_drop"
    /\ game.game_over
    /\ \E c \in Shape(Active(game), Spawn, 0) :
           At(game.settled, c) = "g" /\ At(game.board, c) = Active(game)

(***************************************************************************)
(* C8                                                                      *)
(***************************************************************************)
\* C8: game_over is false after construction on an empty board, becomes true only
\* in a step that spawns a piece onto an occupied cell, and never becomes false
\* again.
C8_GameOverOnlyAtSpawn ==
    /\ op = "new" => ~game.game_over
    /\ [][game'.game_over # game.game_over =>
              (~game.game_over /\ SpawnStep /\ SpawnHit(game'))]_vars

\* the game is over and a move was made afterwards
C8_Witness ==
    /\ game.game_over
    /\ op = "move_left"

(***************************************************************************)
(* C9                                                                      *)
(***************************************************************************)
\* C9: while game_over is false the active piece's type, anchor and orientation
\* are a valid placement whose four cells are inside the board, carry the
\* piece's tag and are none of the locked or garbage cells.
C9_ActiveValid ==
    (~game.game_over /\ game.raised = "") =>
        /\ get_filled(Active(game), game.piece_position, game.piece_orientation) # None
        /\ game.piece_orientation \in 0..3
        /\ Cardinality(Footprint(game)) = 4
        /\ \A c \in Footprint(game) :
               /\ InBoard(c)
               /\ At(game.board, c) = Active(game)
               /\ At(game.settled, c) = ""

\* a piece spawned after a lock was rotated next to locked cells
C9_Witness ==
    /\ ~game.game_over
    /\ op = "rotate_ccw"
    /\ game.previous_action = "rotate"
    /\ game.piece_position[1] < 4
    /\ game.settled # EmptyBoard

(***************************************************************************)
(* C10                                                                     *)
(***************************************************************************)
\* the step is a lock that cleared no row
LockWithoutClear == op' = "hard_drop" /\ game'.raised = "" /\ game'.lock_ret[2] = <<>>

\* the rows of b from n + 1 up are the rows of below from 1 up
RaisedBy(b, below, n) == \A r \in 1..(Rows - n) : b[r + n] = below[r]

\* the rows from + 1 .. from + n of b are n equal garbage rows with one hole
GarbageRows(b, from, n) ==
    \E hole \in 1..Cols :
        \A r \in (from + 1)..(from + n) :
            r <= Rows => \A c \in 1..Cols : b[r][c] = (IF c = hole THEN "" ELSE "g")

\* C10 as stated: a lock that clears no row resets the combo to -1 and drains
\* one pending entry: the oldest is removed, that many garbage rows are
\* inserted, and the later entries stay queued.
C10_AsStated ==
    [][(LockWithoutClear /\ game.pending_garbage # <<>>) =>
          /\ game'.current_combo = -1
          /\ game'.pending_garbage = Tail(game.pending_garbage)
          /\ GarbageRows(game'.settled, 0, game.pending_garbage[1])
          /\ RaisedBy(game'.settled, soft_drop(game).board, game.pending_garbage[1])]_vars

\* C10 amended: a lock that clears no row resets the combo to -1 and drains the
\* whole pending queue in that call: for every entry, oldest first, that many
\* garbage rows with one hole column are inserted at the bottom, and no entry
\* stays queued.
C10_DrainsAllPending ==
    [][LockWithoutClear =>
          LET q == game.pending_garbage
          IN  /\ game'.current_combo = -1
              /\ game'.pending_garbage = <<>>
              /\ \A k \in 1..Len(q) : GarbageRows(game'.settled, SumFrom(q, k + 1), q[k])
              /\ RaisedBy(game'.settled, soft_drop(game).board, SumFrom(q, 1))]_vars

\* a lock that cleared no row has just accepted two pending entries: the queue is
\* empty and the bottom row and row 11 are garbage rows with different holes
C10_Witness ==
    /\ op = "hard_drop"
    /\ game.lock_ret[2] = <<>>
    /\ game.pending_garbage = <<>>
    /\ \E h1, h2 \in 1..Cols :
           /\ h1 # h2
           /\ \A c \in 1..Cols : game.settled[1][c] = (IF c = h1 THEN "" ELSE "g")
           /\ \A c \in 1..Cols : game.settled[11][c] = (IF c = h2 THEN "" ELSE "g")

(***************************************************************************)
(* C11                                                                     *)
(***************************************************************************)
\* a lock_piece call that returned with at least one cleared row
LockWithClear == op' = "hard_drop" /\ game'.raised = "" /\ game'.lock_ret[2] # <<>>

\* a row of garbage, with or without a piece cell in its hole
IsGarbage(row) == row[1] = "g" \/ row[2] = "g"

GarbageCount(b) == Cardinality({r \in 1..Rows : IsGarbage(b[r])})

\* the garbage rows among the rows a lock cleared
ClearedGarbage(b, tiled) ==
    Cardinality({k \in 1..Len(tiled) : IsGarbage(b[PyIdx(tiled[k], Rows) + 1])})

\* C11: pending garbage is applied exactly once and in FIFO order at the next lock
\* that clears no row.  A lock that clears no row turns every queued entry n into
\* n garbage rows, the oldest entry's rows inserted first (so they end up on top),
\* and empties the queue; a lock that clears a row inserts no garbage row; no
\* other call inserts or removes a garbage row or takes an entry off the queue.
C11_GarbageOnceFifo ==
    [][\A before \in {GarbageCount(game.board)} :
       \A q \in {game.pending_garbage} :
          /\ LockWithoutClear =>
                /\ game'.pending_garbage = <<>>
                /\ GarbageCount(game'.settled) = Min(Rows, before + SumFrom(q, 1))
                /\ \A k \in 1..Len(q) : GarbageRows(game'.settled, SumFrom(q, k + 1), q[k])
          /\ LockWithClear =>
                GarbageCount(game'.settled) =
                    before - ClearedGarbage(game.board, game'.lock_ret[2])
          /\ (op' # "hard_drop" \/ game'.raised # "") =>
                /\ GarbageCount(game'.board) = before
                /\ \/ game'.pending_garbage = q
                   \/ /\ op' = "receive"
                      /\ Len(game'.pending_garbage) = Len(q) + 1
                      /\ SubSeq(game'.pending_garbage, 1, Len(q)) = q]_vars

\* an entry of ten lines stayed queued over a lock that cleared the one garbage
\* row and was applied by the lock after it: three cells of the upright "i" stand
\* on ten garbage rows and the queue is empty
C11_Witness ==
    /\ op = "hard_drop"
    /\ game.lock_ret[2] = <<>>
    /\ game.pending_garbage = <<>>
    /\ GarbageCount(game.settled) = 10
    /\ game.settled[11][6] = "i" /\ game.settled[13][6] = "i" /\ game.settled[14][6] # "i"

(***************************************************************************)
(* C12                                                                     *)
(***************************************************************************)
\* the queue the attack a leaves of q when it cancels entries oldest first and
\* takes what is left of it off the first entry it cannot cancel
RECURSIVE Reduced(_, _)
Reduced(q, a) ==
    IF q = <<>> THEN <<>>
    ELSE IF q[1] <= a THEN Reduced(Tail(q), a - q[1])
    ELSE <<q[1] - a>> \o Tail(q)

\* C12: a clearing lock with raw attack A > 0 and pending entries whose sum is
\* more than A consumes entries oldest first, leaves the first entry it cannot
\* cancel at the head reduced by the attack left over and the later entries
\* unchanged, so that the pending total drops by A, and appends nothing to
\* sent_garbage.
C12_PartialCancelKeepsEntry ==
    [][\A q \in {game.pending_garbage} :
       \A A \in {game'.lock_ret[1]} :
          (LockWithClear /\ A > 0 /\ SumFrom(q, 1) > A) =>
             /\ game'.pending_garbage = Reduced(q, A)
             /\ SumFrom(game'.pending_garbage, 1) = SumFrom(q, 1) - A
             /\ game'.sent_garbage = game.sent_garbage]_vars

(***************************************************************************)
(* C13                                                                     *)
(***************************************************************************)
\* C13: when the raw attack A of a clearing lock is at least the sum of the
\* pending entries, every pending entry is cancelled and exactly one entry
\* A - sum is appended to sent_garbage when that remainder is positive, none when
\* it is zero.
C13_FullCancelSendsRest ==
    [][\A q \in {game.pending_garbage} :
       \A A \in {game'.lock_ret[1]} :
          (LockWithClear /\ A >= SumFrom(q, 1)) =>
             /\ game'.pending_garbage = <<>>
             /\ game'.sent_garbage =
                   IF A - SumFrom(q, 1) > 0
                   THEN Append(game.sent_garbage, A - SumFrom(q, 1))
                   ELSE game.sent_garbage]_vars

\* a four-row clear with raw attack 5 has met the pending entries 2 and 3: the
\* queue is empty and nothing was sent
C13_Witness ==
    /\ op = "hard_drop"
    /\ game.lock_ret[1] = 5
    /\ Len(game.lock_ret[2]) = 4
    /\ game.pending_garbage = <<>>
    /\ game.sent_garbage = <<>>
    /\ GarbageCount(game.settled) = 0

(***************************************************************************)
(* C14                                                                     *)
(***************************************************************************)
\* a lock that cleared exactly one row while the combo counter was -1
FreshSingle ==
    LockWithClear /\ Len(game'.lock_ret[2]) = 1 /\ game.current_combo = -1

\* C14 as stated: locking a piece that completes exactly one row while the combo
\* counter is -1 yields a raw attack equal to the attack table's single-line
\* value, with zero combo bonus, and sets the combo counter to 0.
C14_AsStated ==
    [][FreshSingle =>
          /\ game'.lock_ret[1] = ATTACK_TABLE[0 + 1]
          /\ game'.current_combo = 0]_vars

\* C14 amended: such a lock sets the combo counter to 0 and adds no combo bonus;
\* its raw attack is the table value of the kind of single it is: that of a plain
\* single (index 0) when the lock is no spin, that of a mini-spin single (index 4)
\* when it is a mini spin, that of a spin single (index 5), plus the back-to-back
\* bonus when the flag was set, when it is a full spin; and the all-clear value
\* (index 8) when the clear leaves the board empty.
C14_FreshSingleByKind ==
    [][FreshSingle =>
          /\ game'.current_combo = 0
          /\ game'.lock_ret[1] =
                IF AllClear(game'.settled) THEN ATTACK_TABLE[8 + 1]
                ELSE CASE game'.spin = "no" -> ATTACK_TABLE[0 + 1]
                       [] game'.spin = "mini" -> ATTACK_TABLE[4 + 1]
                       [] game'.spin = "t" ->
                            ATTACK_TABLE[5 + 1]
                            + (IF game.back_to_back THEN B2B_BONUS ELSE 0)]_vars

\* a full spin of the "t" has cleared one row with the combo counter at -1: the
\* raw attack is 2 and the combo counter 0
C14_Witness ==
    /\ op = "hard_drop"
    /\ game.spin = "t"
    /\ game.lock_ret = <<2, <<0>>, 5>>
    /\ game.current_combo = 0

(***************************************************************************)
(* C15                                                                     *)
(***************************************************************************)
\* the attack-table index of a clear of n rows classified spin
Kind(n, spin) ==
    IF spin = "t" \/ (spin = "mini" /\ n >= 2) THEN n + 4
    ELSE IF spin = "mini" THEN 4
    ELSE n - 1

\* the raw attack of the clear that led to t, were no back-to-back bonus added
Unboosted(t) ==
    ATTACK_TABLE[Kind(Len(t.lock_ret[2]), t.spin) + 1]
    + COMBO_TABLE[Min(t.current_combo, 12) + 1]

\* the clear that led to t is a 4-row clear or a spin clear
Qualifying(t) == Len(t.lock_ret[2]) = 4 \/ t.spin \in {"t", "mini"}

\* a clearing lock that left cells on the board
PartialClear == LockWithClear /\ ~AllClear(game'.settled)

\* the flag is as it was after every call but a clearing lock
FlagKept == ~LockWithClear => game'.back_to_back = game.back_to_back

\* C15 as stated: a 4-row clear made while back_to_back is false sets the flag and
\* gets no bonus; the flag then stays set over non-clearing locks, and the next
\* qualifying clear (4-row or spin-based), made while it is still set, gets the
\* bonus.
C15_AsStated ==
    [][/\ FlagKept
       /\ (PartialClear /\ Len(game'.lock_ret[2]) = 4 /\ ~game.back_to_back) =>
             (game'.back_to_back /\ game'.lock_ret[1] = Unboosted(game'))
       /\ (PartialClear /\ Qualifying(game') /\ game.back_to_back) =>
             game'.lock_ret[1] = Unboosted(game') + B2B_BONUS]_vars

\* C15 amended: the same, but a qualifying clear that is a mini spin of a single
\* row gets no bonus (and keeps the flag set).
C15_BonusOnNextQualifying ==
    [][/\ FlagKept
       /\ (PartialClear /\ Len(game'.lock_ret[2]) = 4 /\ ~game.back_to_back) =>
             (game'.back_to_back /\ game'.lock_ret[1] = Unboosted(game'))
       /\ (PartialClear /\ Qualifying(game') /\ game.back_to_back) =>
             /\ game'.back_to_back
             /\ game'.lock_ret[1] =
                   IF game'.spin = "mini" /\ Len(game'.lock_ret[2]) = 1
                   THEN Unboosted(game')
                   ELSE Unboosted(game') + B2B_BONUS]_vars

\* a 4-row clear made with the flag set, a lock without a clear after the clear
\* that set it: raw attack 5, the table's 4 and the bonus
C15_Witness ==
    /\ op = "hard_drop"
    /\ Len(game.lock_ret[2]) = 4
    /\ game.lock_ret[1] = ATTACK_TABLE[3 + 1] + B2B_BONUS
    /\ game.current_combo = 0
    /\ game.back_to_back

(***************************************************************************)
(* C16                                                                     *)
(***************************************************************************)
\* C16: after every clearing lock back_to_back is true exactly when the clear was
\* a 4-row clear or a spin clear, full or mini; a lock that clears no row leaves
\* the flag as it was; and no bonus is added when the clear is a mini spin of a
\* single row.
C16_FlagFollowsClear ==
    [][/\ LockWithClear => (game'.back_to_back <=> Qualifying(game'))
       /\ LockWithoutClear => game'.back_to_back = game.back_to_back
       /\ (PartialClear /\ game'.spin = "mini" /\ Len(game'.lock_ret[2]) = 1) =>
             game'.lock_ret[1] = Unboosted(game')]_vars

\* a plain single made right after a mini-spin single has reset the flag the mini
\* spin had set
C16_Witness ==
    /\ op = "hard_drop"
    /\ game.spin = "no"
    /\ Len(game.lock_ret[2]) = 1
    /\ game.current_combo = 1
    /\ ~game.back_to_back
    /\ game.settled[1][1] = "t"

(***************************************************************************)
(* C17                                                                     *)
(***************************************************************************)
\* C17: when the whole board is empty after the cleared rows are removed, the raw
\* attack of the lock is the all-clear value ATTACK_TABLE[8] = 10, the largest of
\* the table, and the placement type is 8, whatever the number of rows cleared,
\* the spin, the combo counter and the back-to-back flag.
C17_AllClearOverrides ==
    [][(LockWithClear /\ AllClear(game'.settled)) =>
          /\ game'.lock_ret[1] = ATTACK_TABLE[8 + 1]
          /\ game'.lock_ret[3] = 8
          /\ ATTACK_TABLE[8 + 1] = 10
          /\ \A i \in 1..Len(ATTACK_TABLE) : ATTACK_TABLE[i] <= ATTACK_TABLE[8 + 1]]_vars

\* the tenth piece has cleared the last two rows of the board: the lock returned
\* the all-clear attack for a clear whose own score is that of a double
C17_Witness ==
    /\ op = "hard_drop"
    /\ AllClear(game.settled)
    /\ game.lock_ret = <<10, <<0, 1>>, 8>>
    /\ Unboosted(game) = ATTACK_TABLE[1 + 1]

(***************************************************************************)
(* C18                                                                     *)
(***************************************************************************)
\* a lock_piece call that returned
Locked == op' = "hard_drop" /\ game'.raised = ""

\* C18: lock_piece returns (raw attack, cleared rows, placement type) with
\* placement type -1 exactly when no row was cleared, and then raw attack 0;
\* otherwise the placement type is in 0..8.  total_attack grows by the raw attack
\* of every lock and is changed by nothing else, so it is the sum of the raw
\* attacks of the locks so far and never decreases.
C18_LockResult ==
    [][/\ Locked =>
             /\ game'.lock_ret[3] = -1 <=> game'.lock_ret[2] = <<>>
             /\ game'.lock_ret[2] = <<>> => game'.lock_ret[1] = 0
             /\ game'.lock_ret[2] # <<>> => game'.lock_ret[3] \in 0..8
             /\ game'.lock_ret[1] >= 0
             /\ game'.total_attack = game.total_attack + game'.lock_ret[1]
       /\ ~Locked => game'.total_attack = game.total_attack]_vars

\* the all-clear lock of a game whose seventh piece had scored 1: the lock
\* returned raw attack 10 and the total is 11
C18_Witness ==
    /\ op = "hard_drop"
    /\ game.lock_ret[1] = 10
    /\ game.lock_ret[3] = 8
    /\ game.total_attack = 11

(***************************************************************************)
(* C19                                                                     *)
(***************************************************************************)
\* C19: lock_piece runs the spin classification if and only if the piece being
\* locked, the active piece on the board, is the "t", in every reachable state,
\* also after a hold that swapped the held piece back in; a lock of any other
\* piece is scored with spin none.
C19_SpinIffActiveT ==
    [][Locked =>
          \A sunk \in {soft_drop(game)} :
             game'.spin = IF Active(game) = "t" THEN check_t_spin(sunk) ELSE "no"]_vars

(***************************************************************************)
(* C20                                                                     *)
(***************************************************************************)
\* the classification a lock of the active piece would get were it made now
SpinIfLockedNow(s) ==
    hard_drop(s, [k \in 1..Len(s.pending_garbage) |-> 0]).spin

\* a translate or a drop that moved the active piece
Translated ==
    /\ op' \in {"move_left", "move_right", "move_down", "soft_drop"}
    /\ game'.piece_position # game.piece_position

\* C20: a lock of the "t" is classified as spin none unless the last successful
\* action applied to that piece was a rotation: a lock whose piece was last
\* translated, or descends a row or more in the lock's own drop, is classified
\* none; so is a lock made right after a successful translate; and so is a lock
\* made right after the piece spawned, by a lock or by a hold, whatever rotation
\* the piece before it or the piece now held had received.
C20_SpinNeedsOwnRotation ==
    [][/\ Locked =>
             \A sunk \in {soft_drop(game)} :
                (game.previous_action # "rotate"
                 \/ sunk.piece_position # game.piece_position) => game'.spin = "no"
       /\ Translated => SpinIfLockedNow(game') = "no"
       /\ (SpawnStep /\ game'.raised = "") => SpinIfLockedNow(game') = "no"]_vars

(***************************************************************************)
(* Calls of get_filled on its own.  game is the call: its arguments and,   *)
(* once made, its result.                                                  *)
(***************************************************************************)
\* piece arguments: the seven types and a string that is none of them
PieceArgs == Pieces \cup {"x"}

\* orientation arguments: 0..3 and one value on either side
OrientationArgs == -1..4

\* rows of the anchors tried, at and around the bottom and the top of the board
EdgeRows == 3

RowArgs == (0 - EdgeRows)..EdgeRows \cup (Rows - 1 - EdgeRows)..(Rows - 1 + EdgeRows)

ColArgs == (0 - EdgeRows)..(Cols - 1 + EdgeRows)

FilledInit ==
    /\ game \in [piece : PieceArgs, position : RowArgs \X ColArgs,
                 orientation : OrientationArgs, filled : {"not called"}]
    /\ op = "args"
    /\ steps = 0

GetFilled ==
    /\ op = "args"
    /\ game' = [game EXCEPT !.filled = get_filled(game.piece, game.position,
                                                  game.orientation)]
    /\ op' = "get_filled"
    /\ steps' = steps + 1

FilledSpec == FilledInit /\ [][GetFilled]_vars

(***************************************************************************)
(* C21                                                                     *)
(***************************************************************************)
\* C21: for every piece type, orientation and anchor get_filled returns None or
\* exactly four distinct cells, every one of them inside the board (column 0..9,
\* row 0..39); an unknown piece type or orientation yields None.
C21_FourCellsInBoard ==
    op = "get_filled" =>
        /\ \/ game.filled = None
           \/ /\ Len(game.filled) = 4
              /\ Cardinality(CellSet(game.filled)) = 4
              /\ \A k \in 1..4 : /\ game.filled[k][1] \in 0..(Rows - 1)
                                 /\ game.filled[k][2] \in 0..(Cols - 1)
        /\ (game.piece \notin Pieces \/ game.orientation \notin 0..3) =>
              game.filled = None

(***************************************************************************)
(* C22                                                                     *)
(***************************************************************************)
\* C22: in every reachable state, after any moves, rotations, holds, line clears
\* and garbage insertions, the board has exactly 40 rows of exactly 10 cells and
\* every cell holds one of the tags '', 'g', 'i', 'j', 'l', 's', 'z', 'o', 't'.
C22_BoardShape ==
    /\ Len(game.board) = Rows
    /\ \A r \in 1..Len(game.board) :
          /\ Len(game.board[r]) = Cols
          /\ \A c \in 1..Len(game.board[r]) : game.board[r][c] \in Tags

\* a game that cleared four rows at once has since taken in a line of garbage
C22_Witness ==
    /\ op = "hard_drop"
    /\ game.lock_ret[2] = <<>>
    /\ game.total_attack = 4
    /\ GarbageCount(game.board) = 1
    /\ Len(game.board) = Rows

(***************************************************************************)
(* accept_pending on its own: the boards of the games in progress, a line  *)
(* count and the column randint returns.                                   *)
(***************************************************************************)
LineArgs == {0, 1, 2, 4, 10, 21, 40}

AcceptInit ==
    /\ \E o \in Openings, n \in LineArgs, random \in 0..(Cols - 1) :
          game = [board |-> Inputs(o.script, NewGame(o.queue)).board,
                  no_lines |-> n, random |-> random, result |-> <<>>]
    /\ op = "args"
    /\ steps = 0

AcceptPending ==
    /\ op = "args"
    /\ game' = [game EXCEPT !.result = accept_pending(game.board, game.no_lines, game.random)]
    /\ op' = "accept_pending"
    /\ steps' = steps + 1

AcceptSpec == AcceptInit /\ [][AcceptPending]_vars

\* C23: accept_pending(n) puts exactly n rows at the bottom of the board, each solid
\* garbage but for one empty cell, in the same column in all n rows; every row the
\* board had moves up by n, and the n topmost rows are gone (the board keeps its height).
C23_AcceptPending ==
    op = "accept_pending" =>
        LET n == game.no_lines
            b == game.board
            res == game.result
        IN  /\ Len(res) = Len(b)
            /\ \E hole \in 1..Cols :
                  \A r \in 1..n : \A c \in 1..Cols : res[r][c] = (IF c = hole THEN "" ELSE "g")
            /\ \A r \in 1..(Len(b) - n) : res[r + n] = b[r]

\* four lines of garbage went under a stack nineteen rows high
C23_Witness ==
    /\ op = "accept_pending"
    /\ game.no_lines = 4
    /\ game.board[19][1] = "g"
    /\ game.result[23][1] = "g"
    /\ game.result[4][1] = "g"

(***************************************************************************)
(* Two engine instances side by side.  Both are constructed on the same    *)
(* queue and brought to the same game in progress; every step makes the    *)
(* same call on both, and each instance draws its own values from randint. *)
(* Here game is the pair: a and b are the instances, draws the values      *)
(* randint returned to a and to b in the last call, and same tells whether *)
(* randint has returned the same values to both so far.                    *)
(***************************************************************************)
PlayerCalls == {Left, Right, CW, CCW, Hold, Sink}

\* the values randint returned during the hard_drop(holes) that led to t: one per
\* entry of the pending queue when the lock cleared nothing, none otherwise
Drawn(t, holes) == IF t.raised = "" /\ t.lock_ret[2] = <<>> THEN holes ELSE <<>>

TwinInit ==
    /\ \E o \in Openings :
          /\ \E s \in {Inputs(o.script, NewGame(o.queue))} :
                game = [a |-> s, b |-> s, draws |-> <<<<>>, <<>>>>, same |-> TRUE]
          /\ op = InputOp(o.script[Len(o.script)])
    /\ steps = 0

TwinCanCall == steps < MaxSteps /\ game.a.raised = "" /\ game.b.raised = ""

\* the same input, or the same incoming attack, on both instances
TwinInput ==
    /\ TwinCanCall
    /\ \E call \in PlayerCalls \cup {Receive(n) : n \in GarbageLines} :
          /\ call[1] = "receive" =>
                /\ op \in {"new", "hard_drop", "receive"}
                /\ Len(game.a.pending_garbage) < MaxPending
                /\ Len(game.b.pending_garbage) < MaxPending
          /\ game' = [game EXCEPT !.a = Input(call, game.a), !.b = Input(call, game.b),
                                  !.draws = <<<<>>, <<>>>>]
          /\ op' = InputOp(call)
    /\ steps' = steps + 1

\* hard_drop on both instances
TwinHardDrop ==
    /\ TwinCanCall
    /\ \E ha \in [1..Len(game.a.pending_garbage) -> HoleColumns],
          hb \in [1..Len(game.b.pending_garbage) -> HoleColumns] :
          \E ta \in {hard_drop(game.a, ha)}, tb \in {hard_drop(game.b, hb)} :
              game' = [a |-> ta, b |-> tb,
                       draws |-> <<Drawn(ta, ha), Drawn(tb, hb)>>,
                       same |-> game.same /\ Drawn(ta, ha) = Drawn(tb, hb)]
    /\ op' = "hard_drop"
    /\ steps' = steps + 1

TwinNext == TwinInput \/ TwinHardDrop

TwinSpec == TwinInit /\ [][TwinNext]_vars

\* the attributes of an engine instance (the bookkeeping fields of the record aside)
Attributes(s) ==
    [board |-> s.board, queue |-> s.queue, queue_position |-> s.queue_position,
     piece_position |-> s.piece_position, piece_orientation |-> s.piece_orientation,
     hold |-> s.hold, held |-> s.held, held_index |-> s.held_index,
     prev_held |-> s.prev_held, current_combo |-> s.current_combo,
     back_to_back |-> s.back_to_back, sent_garbage |-> s.sent_garbage,
     pending_garbage |-> s.pending_garbage, total_attack |-> s.total_attack,
     game_over |-> s.game_over, previous_action |-> s.previous_action]

MaxChildren == 5
MaxBestN == 3
ScoreArgs == {1, 3, 5, 7, 9}

MinOf(seq) == CHOOSE m \in CellSet(seq) : \A k \in 1..Len(seq) : m <= seq[k]

\* seq.index(v): the first position (from 1) of v in seq
IndexOf(seq, v) == CHOOSE i \in 1..Len(seq) : seq[i] = v /\ \A j \in 1..(i - 1) : seq[j] # v

\* seq.pop(i) for a position i (from 1)
PopAt(seq, i) == SubSeq(seq, 1, i - 1) \o SubSeq(seq, i + 1, Len(seq))

\* Faulty variant of PruneLoop: the last kept entry is evicted in place of the
\* lowest one.
RECURSIVE PruneLoopEvictsLast(_, _, _, _)
PruneLoopEvictsLast(scores, k, max_n_index, max_n_score) ==
    IF k >= Len(scores) THEN max_n_index
    ELSE IF scores[k + 1] > MinOf(max_n_score)
         THEN PruneLoopEvictsLast(scores, k + 1,
                   Append(PopAt(max_n_index, Len(max_n_score)), k),
                   Append(PopAt(max_n_score, Len(max_n_score)), scores[k + 1]))
         ELSE PruneLoopEvictsLast(scores, k + 1, max_n_index, max_n_score)

\* for k in range(n, len(self.subtrees)): a child that beats the lowest kept score
\* takes the place of (the first) child with that score
RECURSIVE PruneLoop(_, _, _, _)
PruneLoop(scores, k, max_n_index, max_n_score) ==
    IF k >= Len(scores) THEN max_n_index
    ELSE IF scores[k + 1] > MinOf(max_n_score)
         THEN LET index == IndexOf(max_n_score, MinOf(max_n_score))
              IN  PruneLoop(scores, k + 1,
                            Append(PopAt(max_n_index, index), k),
                            Append(PopAt(max_n_score, index), scores[k + 1]))
         ELSE PruneLoop(scores, k + 1, max_n_index, max_n_score)

\* n = min([self.best_n, len(self.subtrees)]) and the two lists the loop starts from
Prune(scores, best_n) ==
    LET n == Min(best_n, Len(scores))
    IN  PruneLoop(scores, n, [j \in 1..n |-> j - 1], [j \in 1..n |-> scores[j]])

PruneInit ==
    /\ \E len \in 1..MaxChildren, best_n \in 1..MaxBestN :
          \E scores \in [1..len -> ScoreArgs] :
              game = [scores |-> scores, best_n |-> best_n, max_n_index |-> <<>>]
    /\ op = "args"
    /\ steps = 0

PruneSubtrees ==
    /\ op = "args"
    /\ game' = [game EXCEPT !.max_n_index = Prune(game.scores, game.best_n)]
    /\ op' = "prune"
    /\ steps' = steps + 1

PruneSpec == PruneInit /\ [][PruneSubtrees]_vars

\* C25: when more than best_n children were generated, exactly best_n are kept and
\* none of them scores lower than a child that was dropped; when at most best_n were
\* generated, all are kept.  Scores 5, 1, 9, 3, 7 with best_n = 2 keep the 9 and the 7.
C25_KeepsBestN ==
    op = "prune" =>
        LET scores == game.scores
            kept == {i + 1 : i \in CellSet(game.max_n_index)}
        IN  /\ kept \subseteq 1..Len(scores)
            /\ Len(game.max_n_index) = Cardinality(kept)
            /\ Cardinality(kept) = Min(game.best_n, Len(scores))
            /\ \A i \in kept : \A j \in (1..Len(scores)) \ kept : scores[i] >= scores[j]
            /\ (scores = <<5, 1, 9, 3, 7>> /\ game.best_n = 2) => kept = {3, 5}

\* the call of the example: five children, two kept
C25_Witness ==
    /\ op = "prune"
    /\ game.scores = <<5, 1, 9, 3, 7>>
    /\ game.best_n = 2
    /\ game.max_n_index = <<2, 4>>

(***************************************************************************)
(* get_sub_score.  A GameTree node is a record of its raw_score and its    *)
(* subtrees; the call returns the node with sub_score set on it and on     *)
(* every node below it.  Scores are counted in halves of a point (Unit to  *)
(* the point), raw scores are whole even numbers of points, so that the    *)
(* divisions by 2 of a tree three levels high are exact.                   *)
(***************************************************************************)
Unit == 2
RawArgs == {(0 - 6) * Unit, 4 * Unit, 10 * Unit}
MaxSubtrees == 2

Leaves == [raw_score : RawArgs, subtrees : {<<>>}]

\* nodes whose subtrees, at most MaxSubtrees of them, come from below
Over(below) ==
    [raw_score : RawArgs,
     subtrees : UNION {[1..n -> below] : n \in 0..MaxSubtrees}]

Trees == Over(Over(Leaves))

\* max_so_far = -999999999
NoScore == (0 - 999999999) * Unit

\* the node t with self.subtrees and self.sub_score as given
Scored(t, subs, sub_score) ==
    [f \in DOMAIN t \cup {"sub_score"} |->
        CASE f = "sub_score" -> sub_score
          [] f = "subtrees" -> subs
          [] OTHER -> t[f]]

\* max_so_far after the loop over the scored children
RECURSIVE MaxSoFar(_, _, _)
MaxSoFar(subs, k, max_so_far) ==
    IF k > Len(subs) THEN max_so_far
    ELSE MaxSoFar(subs, k + 1, IF subs[k].sub_score > max_so_far
                               THEN subs[k].sub_score ELSE max_so_far)

\* Faulty variant of get_sub_score: the parent is scored before its children are,
\* from the raw scores of its children.
RECURSIVE get_sub_score_early(_)
get_sub_score_early(t) ==
    IF t.subtrees = <<>> THEN Scored(t, <<>>, t.raw_score)
    ELSE Once({Scored(t, subs, (t.raw_score
                                  + MaxSoFar([k \in 1..Len(subs) |->
                                                 [sub_score |-> subs[k].raw_score]],
                                             1, NoScore)) \div 2) :
               subs \in {[k \in 1..Len(t.subtrees) |-> get_sub_score_early(t.subtrees[k])]}})

\* GameTree.get_sub_score
RECURSIVE get_sub_score(_)
get_sub_score(t) ==
    IF t.subtrees = <<>> THEN Scored(t, <<>>, t.raw_score)
    ELSE Once({Scored(t, subs, (t.raw_score + MaxSoFar(subs, 1, NoScore)) \div 2) :
               subs \in {[k \in 1..Len(t.subtrees) |-> get_sub_score(t.subtrees[k])]}})

ScoreInit ==
    /\ game \in Trees
    /\ op = "tree"
    /\ steps = 0

GetSubScore ==
    /\ op = "tree"
    /\ game' = get_sub_score(game)
    /\ op' = "get_sub_score"
    /\ steps' = steps + 1

ScoreSpec == ScoreInit /\ [][GetSubScore]_vars

\* the scored node t and every node below it carry the aggregated score of the claim
RECURSIVE Aggregated(_)
Aggregated(t) ==
    /\ t.subtrees = <<>> => t.sub_score = t.raw_score
    /\ t.subtrees # <<>> =>
          \E best \in 1..Len(t.subtrees) :
              /\ \A k \in 1..Len(t.subtrees) : t.subtrees[k].sub_score <= t.subtrees[best].sub_score
              /\ 2 * t.sub_score = t.raw_score + t.subtrees[best].sub_score
    /\ \A k \in 1..Len(t.subtrees) : Aggregated(t.subtrees[k])

\* C26: after get_sub_score, a leaf's aggregated score is its raw score and an
\* internal node's is the mean of its own raw score and the highest aggregated score
\* among its children, themselves scored by the same rule; a parent of raw score 4
\* with one leaf child of raw score 10 gets 7.
C26_SubScore ==
    op = "get_sub_score" =>
        /\ Aggregated(game)
        /\ (/\ game.raw_score = 4 * Unit
            /\ Len(game.subtrees) = 1
            /\ game.subtrees[1].subtrees = <<>>
            /\ game.subtrees[1].raw_score = 10 * Unit) => game.sub_score = 7 * Unit

\* a root of raw score 10 over a child of raw score 4 that has a leaf of raw score
\* 10 below it: the child gets 7, the root 8.5
C26_Witness ==
    /\ op = "get_sub_score"
    /\ game.raw_score = 10 * Unit
    /\ Len(game.subtrees) = 2
    /\ game.subtrees[1].sub_score = 7 * Unit
    /\ game.subtrees[1].raw_score = 4 * Unit
    /\ game.subtrees[2].sub_score = (0 - 6) * Unit
    /\ game.sub_score = 17

(***************************************************************************)
(* get_basic_placements and the loop that makes the inputs of a placement  *)
(* on an engine (GameTree.move and TetrominoAI.make_move share it).  An    *)
(* input is one of the strings "cw", "ccw", "left", "right", "hold".       *)
(***************************************************************************)
\* [x] * n
Rep(x, n) == [k \in 1..n |-> x]

\* the lists F(lo), F(lo + 1), ..., F(hi) joined: what a for loop of appends builds
RECURSIVE Joined(_)
Joined(lists) == IF lists = <<>> THEN <<>> ELSE Head(lists) \o Joined(Tail(lists))

ForRange(lo, hi, F(_)) == Joined([k \in 1..(hi - lo + 1) |-> F(lo + k - 1)])

\* Faulty variant of get_basic_placements: range(1, 4) in the branch of the o piece.
get_basic_placements_short(piece) ==
    IF piece = "o" THEN
        <<<<>>>> \o ForRange(1, 3, LAMBDA i : <<Rep("left", i), Rep("right", i)>>)
    ELSE IF piece = "i" THEN
        <<<<>>, <<"cw">>>>
        \o ForRange(1, 3, LAMBDA i : <<Rep("left", i), Rep("right", i),
                                      <<"cw">> \o Rep("left", i), <<"cw">> \o Rep("right", i)>>)
        \o <<<<"cw">> \o Rep("left", 4), <<"cw">> \o Rep("right", 4), <<"cw">> \o Rep("left", 5)>>
    ELSE IF piece \in {"s", "z"} THEN
        <<<<>>, <<"cw">>>>
        \o ForRange(1, 3, LAMBDA i : <<Rep("left", i), Rep("right", i)>>)
        \o <<Rep("right", 4)>>
        \o ForRange(1, 4, LAMBDA i : <<<<"cw">> \o Rep("left", i), <<"cw">> \o Rep("right", i)>>)
    ELSE
        <<<<>>, <<"cw", "cw">>, <<"cw">>, <<"ccw", "right">>>>
        \o ForRange(1, 3, LAMBDA i : <<Rep("left", i), Rep("right", i),
                                      <<"cw", "cw">> \o Rep("left", i),
                                      <<"cw", "cw">> \o Rep("right", i)>>)
        \o <<Rep("right", 4), <<"cw", "cw">> \o Rep("right", 4)>>
        \o ForRange(1, 4, LAMBDA i : <<<<"cw">> \o Rep("left", i), <<"cw">> \o Rep("right", i),
                                      <<"ccw", "right">> \o Rep("left", i),
                                      <<"ccw", "right">> \o Rep("right", i)>>)

get_basic_placements(piece) ==
    IF piece = "o" THEN
        <<<<>>>> \o ForRange(1, 4, LAMBDA i : <<Rep("left", i), Rep("right", i)>>)
    ELSE IF piece = "i" THEN
        <<<<>>, <<"cw">>>>
        \o ForRange(1, 3, LAMBDA i : <<Rep("left", i), Rep("right", i),
                                      <<"cw">> \o Rep("left", i), <<"cw">> \o Rep("right", i)>>)
        \o <<<<"cw">> \o Rep("left", 4), <<"cw">> \o Rep("right", 4), <<"cw">> \o Rep("left", 5)>>
    ELSE IF piece \in {"s", "z"} THEN
        <<<<>>, <<"cw">>>>
        \o ForRange(1, 3, LAMBDA i : <<Rep("left", i), Rep("right", i)>>)
        \o <<Rep("right", 4)>>
        \o ForRange(1, 4, LAMBDA i : <<<<"cw">> \o Rep("left", i), <<"cw">> \o Rep("right", i)>>)
    ELSE
        <<<<>>, <<"cw", "cw">>, <<"cw">>, <<"ccw", "right">>>>
        \o ForRange(1, 3, LAMBDA i : <<Rep("left", i), Rep("right", i),
                                      <<"cw", "cw">> \o Rep("left", i),
                                      <<"cw", "cw">> \o Rep("right", i)>>)
        \o <<Rep("right", 4), <<"cw", "cw">> \o Rep("right", 4)>>
        \o ForRange(1, 4, LAMBDA i : <<<<"cw">> \o Rep("left", i), <<"cw">> \o Rep("right", i),
                                      <<"ccw", "right">> \o Rep("left", i),
                                      <<"ccw", "right">> \o Rep("right", i)>>)

\* one pass of the loop body: the if/elif chain on i; any other string does nothing
MakeInput(i, s) ==
    CASE i = "cw" -> rotate_cw(s)
      [] i = "ccw" -> rotate_ccw(s)
      [] i = "left" -> move_left(s)
      [] i = "right" -> move_right(s)
      [] i = "hold" -> hold_piece(s)
      [] OTHER -> s

\* for i in inputs: ...
RECURSIVE MakeInputs(_, _)
MakeInputs(inputs, s) ==
    IF inputs = <<>> THEN s
    ELSE CHOOSE r \in {MakeInputs(Tail(inputs), t) : t \in {MakeInput(Head(inputs), s)}} : TRUE

(***************************************************************************)
(* The placements of the piece in play, made input by input on an engine   *)
(* whose piece has just spawned: a new game of each bag, and two games in  *)
(* progress that have just locked a piece low on the board.  Here game is  *)
(* the record of the engine (game_state), the engine at the spawn          *)
(* (spawned), the engine before the last input (before), the placement     *)
(* being made (inputs) and the number of its inputs made so far (made).    *)
(***************************************************************************)
Spawned == {NewGame(bag) : bag \in Bags}
               \cup {Inputs(o.script, NewGame(o.queue)) : o \in {Column(1), Column(4)}}

PlacementInit ==
    /\ \E s \in Spawned :
          \E k \in 1..Len(get_basic_placements(get_piece(s, 0))) :
              game = [game_state |-> s, spawned |-> s, before |-> s, made |-> 0,
                      inputs |-> get_basic_placements(get_piece(s, 0))[k]]
    /\ op = "spawned"
    /\ steps = 0

NextInput ==
    /\ game.made < Len(game.inputs)
    /\ game' = [game EXCEPT !.before = game.game_state,
                            !.game_state = MakeInput(game.inputs[game.made + 1], game.game_state),
                            !.made = @ + 1]
    /\ op' = game.inputs[game.made + 1]
    /\ steps' = steps + 1

PlacementSpec == PlacementInit /\ [][NextInput]_vars

\* where the placement inputs ends when made on s: orientation, column and cells
Placed(inputs, s) ==
    CHOOSE r \in {[orientation |-> t.piece_orientation, column |-> t.piece_position[2],
                   cells |-> Footprint(t)] : t \in {MakeInputs(inputs, s)}} : TRUE

\* the ends of all placements get_basic_placements lists for the piece of s
Ends(s) ==
    LET list == get_basic_placements(Active(s))
    IN  [k \in 1..Len(list) |-> Placed(list[k], s)]

\* the orientations and columns at which the piece is within the board at the spawn row
InBounds(piece) ==
    {oc \in (0..3) \X ((0 - 2)..(Cols + 1)) :
        \A c \in Shape(piece, <<SpawnRow, oc[2]>>, oc[1]) : InBoard(c)}

\* a set of cells moved down so that its lowest row is row 0
Lowered(cells) ==
    LET low == CHOOSE m \in {d[1] : d \in cells} : \A d \in cells : m <= d[1]
    IN  {<<c[1] - low, c[2]>> : c \in cells}

\* the last input made did what it names
InputSucceeded ==
    /\ op \in {"left", "right"} => game.game_state.ret = "moved"
    /\ op = "left" => game.game_state.piece_position[2] = game.before.piece_position[2] - 1
    /\ op = "right" => game.game_state.piece_position[2] = game.before.piece_position[2] + 1
    /\ op = "cw" => game.game_state.piece_orientation = (game.before.piece_orientation + 1) % 4
    /\ op = "ccw" => game.game_state.piece_orientation = (game.before.piece_orientation + 3) % 4

\* the placement being made is complete
PlacementMade == game.made = Len(game.inputs)

\* no two placements of the list end in the same orientation and column
EndsDistinct(ends) ==
    \A k1, k2 \in 1..Len(ends) :
        (ends[k1].orientation = ends[k2].orientation /\ ends[k1].column = ends[k2].column)
            => k1 = k2

PyAt(seq, i) == seq[PyIdx(i, Len(seq)) + 1]

Abs(x) == IF x < 0 THEN 0 - x ELSE x

MaxOf(seq) == CHOOSE m \in CellSet(seq) : \A k \in 1..Len(seq) : m >= seq[k]

\* sum of f[k] for k in lo..hi
RECURSIVE SumOver(_, _, _)
SumOver(f, lo, hi) == IF lo > hi THEN 0 ELSE f[lo] + SumOver(f, lo + 1, hi)

\* GameTree.get_surface(ignore): per column, the highest row with a cell that is not
\* empty and not in ignore, -1 when there is none
get_surface(board, ignore) ==
    [j \in 1..Cols |->
        LET filled == {i \in 0..(Rows - 1) :
                          board[i + 1][j] # "" /\ <<i, j - 1>> \notin CellSet(ignore)}
        IN  IF filled = {} THEN 0 - 1
            ELSE CHOOSE i \in filled : \A i2 \in filled : i2 <= i]

\* find_well(surface): deepest is never reassigned, well is the last index whose
\* height is at most surface[0]
find_well(surface) ==
    LET deepest == surface[1]
        RECURSIVE Loop(_, _)
        Loop(i, well) ==
            IF i >= Len(surface) THEN well
            ELSE Loop(i + 1, IF deepest >= surface[i + 1] THEN i ELSE well)
    IN  <<Loop(1, 0), deepest>>

\* roughness(surface): for i in range(0, len(surface) - 1), abs(surface[i] - surface[i - 1])
roughness(surface) ==
    SumOver([k \in 1..(Len(surface) - 1) |-> Abs(PyAt(surface, k - 1) - PyAt(surface, k - 2))],
            1, Len(surface) - 1)

\* GameTree.find_holes(surface): the empty cells below the surface
find_holes(board, surface) ==
    SumOver([i \in 1..Cols |-> Cardinality({j \in 0..(surface[i] - 1) : board[j + 1][i] = ""})],
            1, Cols)

\* the sum evaluate_score adds to raw_score, for the engine t its lock_piece call left
Evaluation(t, weights) ==
    LET lock == t.lock_ret
        current == get_filled(QueueAt(t.queue, t.queue_position),
                              t.piece_position, t.piece_orientation)
        surface == get_surface(t.board, current)
        well == find_well(surface)
        no_well == PopAt(surface, well[1] + 1)
        height == MaxOf(surface)
        Over0(x) == IF x > 0 THEN x ELSE 0
    IN  0 - roughness(no_well) * weights[1]
          - find_holes(t.board, surface) * weights[2]
          - height * weights[3]
          - Over0(height - 10) * weights[4]
          - Over0(height - 15) * weights[5]
          + well[2] * weights[6]
          + lock[1] * weights[7]
          + t.current_combo * weights[8]
          + (CASE lock[3] \in {0, 1} -> 0 - weights[9]
               [] lock[3] = 2 -> weights[10]
               [] lock[3] \in 3..7 -> weights[11]
               [] lock[3] = 8 -> weights[12]
               [] OTHER -> 0)

(***************************************************************************)
(* Objects.  The board and the pending_garbage list of an engine are       *)
(* mutated in place and are never rebound after construction, so two       *)
(* engines that hold the same list see each other's changes.  A memory     *)
(* maps the identity of such a list to its value; an engine object is the  *)
(* record of its other attributes (attrs) with the identities of its board *)
(* and of its pending_garbage list.  All other attributes are immutable    *)
(* values or lists the constructor makes anew.                             *)
(***************************************************************************)
\* a new list of value v: its identity is w.next
Alloc(w, v) ==
    [w EXCEPT !.mem = [id \in DOMAIN w.mem \cup {w.next} |->
                          IF id = w.next THEN v ELSE w.mem[id]],
              !.next = w.next + 1]

\* the attributes kept in the object record itself
Blank(t) == [t EXCEPT !.board = <<>>, !.pending_garbage = <<>>]

\* the engine as the methods of game.py see it
Deref(e, mem) ==
    [e.attrs EXCEPT !.board = mem[e.board], !.pending_garbage = mem[e.pending_garbage]]

\* the memory after a method has left engine object e as t
Assign(w, e, t) ==
    [w EXCEPT !.mem = [id \in DOMAIN w.mem |->
                          IF id = e.pending_garbage THEN t.pending_garbage
                          ELSE IF id = e.board THEN t.board
                          ELSE w.mem[id]]]

\* a TetrominoGame object constructed in state t
NewObject(w, t) ==
    [w |-> Alloc(Alloc(w, t.board), t.pending_garbage),
     object |-> [attrs |-> Blank(t), board |-> w.next, pending_garbage |-> w.next + 1]]

(***************************************************************************)
(* GameTree.  A node is the record of its game_state (an engine object),   *)
(* inputs, subtrees, current and raw_score, and of sub_score once          *)
(* get_sub_score has set it.  max_height, best_n and weights are passed    *)
(* on unchanged to every node and are kept once, in cfg.  The operators    *)
(* that allocate or mutate return the memory with their result; the field  *)
(* raised of the memory record names the exception that ended the call.    *)
(***************************************************************************)
\* Faulty variant of GameTree_init: the board is taken over without deepcopy.
GameTree_init_shares_board(w, source, inputs, current) ==
    LET src == source.attrs
        fresh == NewGame(src.queue)
        w1 == Alloc(w, w.mem[source.pending_garbage])
    IN  [w |-> w1,
         node |-> [game_state |->
                       [attrs |-> [Blank(fresh) EXCEPT
                                      !.queue_position = src.queue_position,
                                      !.current_combo = src.current_combo,
                                      !.back_to_back = src.back_to_back,
                                      !.hold = src.hold,
                                      !.held = src.held,
                                      !.held_index = src.held_index,
                                      !.prev_held = src.prev_held,
                                      !.previous_action = src.previous_action],
                        board |-> source.board,
                        pending_garbage |-> w.next],
                   inputs |-> inputs, subtrees |-> <<>>, current |-> current,
                   raw_score |-> 0]]

\* GameTree.__init__(game, inputs, ..., current), game being the engine object source:
\* a new engine on the same queue, ten attributes set to deep copies of those of game; the others (piece_position,
\* piece_orientation, game_over, sent_garbage, total_attack) stay as constructed
GameTree_init(w, source, inputs, current) ==
    LET src == source.attrs
        fresh == NewGame(src.queue)
        w1 == Alloc(w, w.mem[source.board])
        w2 == Alloc(w1, w.mem[source.pending_garbage])
    IN  [w |-> w2,
         node |-> [game_state |->
                       [attrs |-> [Blank(fresh) EXCEPT
                                      !.queue_position = src.queue_position,
                                      !.current_combo = src.current_combo,
                                      !.back_to_back = src.back_to_back,
                                      !.hold = src.hold,
                                      !.held = src.held,
                                      !.held_index = src.held_index,
                                      !.prev_held = src.prev_held,
                                      !.previous_action = src.previous_action],
                        board |-> w.next,
                        pending_garbage |-> w.next + 1],
                   inputs |-> inputs, subtrees |-> <<>>, current |-> current,
                   raw_score |-> 0]]

\* the column the k-th call of randint returns while child number i of a node is
\* evaluated, in a search whose draws start at seed
Draw(seed, i, k) == (seed + 3 * i + k) % Cols

\* GameTree.evaluate_score on child number i: move, lock_piece, the heuristics (an
\* exception of lock_piece ends the call and all calls around it)
evaluate_score(w, node, i, cfg) ==
    Once({[w |-> [Assign(w, node.game_state, t) EXCEPT !.raised = t.raised],
           node |-> [node EXCEPT !.game_state.attrs = Blank(t),
                                 !.raw_score = IF t.raised # "" THEN @
                                               ELSE @ + Evaluation(t, cfg.weights)]] :
          t \in {lock_piece(s1, [k \in 1..Len(s1.pending_garbage) |-> Draw(cfg.seed, i, k)]) :
                 s1 \in {soft_drop(MakeInputs(node.inputs, Deref(node.game_state, w.mem)))}}})

\* the placements generate_subtrees makes children for, in the order of self.subtrees:
\* the list possible, then the list possible_hold
Candidates(s) ==
    LET possible == get_basic_placements(QueueAt(s.queue, s.queue_position))
        WithHold(list) == [k \in 1..Len(list) |-> <<"hold">> \o list[k]]
    IN  IF s.held # "" /\ s.hold = FALSE
        THEN (possible \o WithHold(get_basic_placements(s.held)))
                 \o WithHold(get_basic_placements(s.held))
        ELSE IF s.held = ""
        THEN possible
                 \o WithHold(get_basic_placements(QueueAt(s.queue, s.queue_position + 1)))
        ELSE possible

\* for sub in subs[lo..hi]: self.subtrees.append(GameTree(self.game_state, sub, ...,
\* self.current + 1)); st is the memory and the list self.subtrees so far.  The
\* passes are made in order, the range being split in two to keep the nesting flat.
RECURSIVE AppendSubtrees(_, _, _, _, _)
AppendSubtrees(st, parent, subs, lo, hi) ==
    IF lo > hi THEN st
    ELSE IF lo = hi
    THEN Once({[w |-> m.w, subtrees |-> Append(st.subtrees, m.node)] :
               m \in {GameTree_init(st.w, parent.game_state, subs[lo], parent.current + 1)}})
    ELSE Once({AppendSubtrees(half, parent, subs, ((lo + hi) \div 2) + 1, hi) :
               half \in {AppendSubtrees(st, parent, subs, lo, (lo + hi) \div 2)}})

\* for s in self.subtrees[lo..hi]: s.evaluate_score(), in order
RECURSIVE EvaluateAll(_, _, _, _)
EvaluateAll(st, lo, hi, cfg) ==
    IF lo > hi \/ st.w.raised # "" THEN st
    ELSE IF lo = hi
    THEN Once({[w |-> d.w, subtrees |-> [st.subtrees EXCEPT ![lo] = d.node]] :
               d \in {evaluate_score(st.w, st.subtrees[lo], lo, cfg)}})
    ELSE Once({EvaluateAll(half, ((lo + hi) \div 2) + 1, hi, cfg) :
               half \in {EvaluateAll(st, lo, (lo + hi) \div 2, cfg)}})

\* for s in self.subtrees: s.generate_subtrees()
RECURSIVE GenerateEach(_, _, _, _)

\* GameTree.generate_subtrees
RECURSIVE generate_subtrees(_, _, _)
generate_subtrees(w, node, cfg) ==
    Once({IF grown.node.current + 1 < cfg.max_height /\ grown.w.raised = ""
          THEN GenerateEach(grown.w, grown.node, 1, cfg)
          ELSE grown :
          grown \in {IF node.subtrees # <<>> THEN [w |-> w, node |-> node]
                     ELSE Once({[w |-> all.w,
                                 node |-> [node EXCEPT !.subtrees =
                                     IF all.w.raised # "" THEN all.subtrees
                                     ELSE LET max_n_index ==
                                                  Prune([k \in 1..Len(all.subtrees) |->
                                                            all.subtrees[k].raw_score],
                                                        cfg.best_n)
                                          IN  [k \in 1..Len(max_n_index) |->
                                                  all.subtrees[max_n_index[k] + 1]]]] :
                                all \in {EvaluateAll(made, 1, Len(made.subtrees), cfg) :
                                         made \in {AppendSubtrees(
                                                       [w |-> w, subtrees |-> <<>>], node,
                                                       subs, 1, Len(subs)) :
                                                   subs \in {Candidates(node.game_state.attrs)}}}})}})

GenerateEach(w, node, k, cfg) ==
    IF k > Len(node.subtrees) \/ w.raised # "" THEN [w |-> w, node |-> node]
    ELSE Once({GenerateEach(done[1], done[2], k + 1, cfg) :
               done \in {<<d.w, [node EXCEPT !.subtrees[k] = d.node]>> :
                         d \in {generate_subtrees(w, node.subtrees[k], cfg)}}})

\* Faulty variant of reduce_current: the subtrees are left as they are.
reduce_current_root_only(node) == [node EXCEPT !.current = @ - 1]

\* GameTree.reduce_current
RECURSIVE reduce_current(_)
reduce_current(node) ==
    [node EXCEPT !.subtrees = [k \in 1..Len(node.subtrees) |-> reduce_current(node.subtrees[k])],
                 !.current = @ - 1]

(***************************************************************************)
(* TetrominoAI and its driver.  Here game is the record of the AI: game is *)
(* the live engine object (the one the driver holds as well), tree the     *)
(* root node, mem and next the memory, max_height, best_n and weights the  *)
(* parameters, and raised the exception that ended the last call ("" if    *)
(* none).                                                                  *)
(***************************************************************************)
\* the identities of the lists reachable from node
RECURSIVE ListsOf(_)
ListsOf(node) ==
    {node.game_state.board, node.game_state.pending_garbage}
        \cup UNION {ListsOf(node.subtrees[k]) : k \in 1..Len(node.subtrees)}

\* the identities of the pending_garbage lists reachable from node
RECURSIVE PendingOf(_)
PendingOf(node) ==
    {node.game_state.pending_garbage}
        \cup UNION {PendingOf(node.subtrees[k]) : k \in 1..Len(node.subtrees)}

\* the memory without the lists no object refers to any more
Collected(ai) ==
    [ai EXCEPT !.mem = [id \in ({ai.game.board, ai.game.pending_garbage} \cup ListsOf(ai.tree))
                                   \cap DOMAIN ai.mem
                           |-> ai.mem[id]]]

\* the memory record the operators of GameTree work on
World(ai) == [mem |-> ai.mem, next |-> ai.next, raised |-> ""]

\* the search parameters of the AI, and where the draws of randint start
Cfg(ai, seed) == [max_height |-> ai.max_height, best_n |-> ai.best_n, weights |-> ai.weights,
                  seed |-> seed]

\* the AI after a call that left memory w and root node tree
After(ai, w, tree) ==
    Collected([ai EXCEPT !.mem = w.mem, !.next = w.next, !.raised = w.raised, !.tree = tree])

\* TetrominoAI(game, max_height, best_n, weights) on a live engine in state t
TetrominoAI(t, max_height, best_n, weights) ==
    Once({Once({[game |-> live.object, tree |-> root.node,
                 mem |-> root.w.mem, next |-> root.w.next,
                 max_height |-> max_height, best_n |-> best_n, weights |-> weights,
                 raised |-> ""] :
                root \in {GameTree_init(live.w, live.object, <<>>, 1)}}) :
          live \in {NewObject([mem |-> <<>>, next |-> 1, raised |-> ""], t)}})

\* TetrominoAI.generate_tree: a new root if the boards differ, then the subtrees and
\* the scores
generate_tree(ai, seed) ==
    Once({After(ai, grown.w, IF grown.w.raised # "" THEN grown.node
                             ELSE get_sub_score(grown.node)) :
          grown \in {generate_subtrees(root.w, root.node, Cfg(ai, seed)) :
                     root \in {IF ai.mem[ai.game.board] # ai.mem[ai.tree.game_state.board]
                               THEN GameTree_init(World(ai), ai.game, <<>>, 1)
                               ELSE [w |-> World(ai), node |-> ai.tree]}}})

\* Faulty variant of BestMove: min(moves) in place of max(moves).
WorstMove(subtrees) ==
    LET best == CHOOSE k \in 1..Len(subtrees) :
                    /\ \A j \in 1..Len(subtrees) : subtrees[j].sub_score >= subtrees[k].sub_score
                    /\ \A j \in (k + 1)..Len(subtrees) :
                           subtrees[j].sub_score # subtrees[k].sub_score
    IN  subtrees[best]

\* moves = {s.sub_score: s for s in self.tree.subtrees}; moves[max(moves)]: of the
\* children with the highest sub_score, the last one
BestMove(subtrees) ==
    LET best == CHOOSE k \in 1..Len(subtrees) :
                    /\ \A j \in 1..Len(subtrees) : subtrees[j].sub_score <= subtrees[k].sub_score
                    /\ \A j \in (k + 1)..Len(subtrees) :
                           subtrees[j].sub_score # subtrees[k].sub_score
    IN  subtrees[best]

\* the live engine of ai left in state t by a call
LiveAs(ai, t) == [ai EXCEPT !.game.attrs = Blank(t)]

\* TetrominoAI.make_move, with the columns randint returns during the hard drop (an
\* exception of hard_drop ends the call before reduce_current)
make_move(ai, holes) ==
    Once({Once({After(LiveAs(ai, t),
                      Assign([World(ai) EXCEPT !.raised = t.raised], ai.game, t),
                      IF t.raised # "" THEN chosen ELSE reduce_current(chosen)) :
                t \in {hard_drop(MakeInputs(chosen.inputs, Deref(ai.game, ai.mem)), holes)}}) :
          chosen \in {BestMove(ai.tree.subtrees)}})

\* the driver between two moves: g.pending_garbage.extend([n]); g.sent_garbage.clear()
\* on the live engine
Extend(ai, n) ==
    Once({After(LiveAs(ai, t), Assign(World(ai), ai.game, t), ai.tree) :
          t \in {receive(Deref(ai.game, ai.mem), n)}})

\* calls of the driver explored
MaxCalls == 4

\* the search parameters tried
HeightArgs == {2, 3}
BestArgs == {1, 2}
WeightArgs == {<<3, 5, 2, 1, 1, 2, 4, 1, 2, 3, 6, 9>>, <<1, 1, 1, 0, 0, 8, 1, 4, 0, 1, 2, 3>>}

\* the engines an AI is constructed on: new games, and games in progress whose
\* piece has just spawned
LiveArgs ==
    {NewGame(bag) : bag \in {<<"t", "i", "o", "l", "j", "s", "z">>,
                             <<"s", "l", "i", "t", "j", "o", "z">>}}
        \cup {Inputs(o.script, NewGame(o.queue)) : o \in {Column(1), Column(4), SlotThenSingle}}

\* the raw scores are counted in quarters of a point, so that the halvings of
\* get_sub_score in a tree of three levels are exact
Quarters(weights) == [k \in 1..Len(weights) |-> 4 * weights[k]]

AIInit ==
    /\ \E t \in LiveArgs, max_height \in HeightArgs, best_n \in BestArgs, weights \in WeightArgs :
          game = TetrominoAI(t, max_height, best_n, Quarters(weights))
    /\ op = "new"
    /\ steps = 0

AICanCall == steps < MaxCalls /\ game.raised = ""

\* where the draws of randint may start in a search: they matter only if some
\* engine has garbage pending
Seeds(ai) ==
    IF \E id \in PendingOf(ai.tree) \cup {ai.game.pending_garbage} : ai.mem[id] # <<>>
    THEN HoleColumns ELSE {0}

\* a1.generate_tree(), while the game is not over
GenerateTree ==
    /\ AICanCall
    /\ op \in {"new", "make_move", "extend"}
    /\ ~game.game.attrs.game_over
    /\ \E seed \in Seeds(game) : game' = generate_tree(game, seed)
    /\ op' = "generate_tree"
    /\ steps' = steps + 1

\* a1.make_move()
MakeMove ==
    /\ AICanCall
    /\ op = "generate_tree"
    /\ \E holes \in [1..Len(game.mem[game.game.pending_garbage]) -> HoleColumns] :
          game' = make_move(game, holes)
    /\ op' = "make_move"
    /\ steps' = steps + 1

\* g1.pending_garbage.extend(g2.sent_garbage) with one attack sent; g1.sent_garbage.clear()
ExtendPending ==
    /\ AICanCall
    /\ op = "make_move"
    /\ \E n \in GarbageLines : game' = Extend(game, n)
    /\ op' = "extend"
    /\ steps' = steps + 1

AINext == GenerateTree \/ MakeMove \/ ExtendPending

AISpec == AIInit /\ [][AINext]_vars

(***************************************************************************)
(* Properties of the search tree and of the moves made from it.            *)
(***************************************************************************)
\* node with d added to the counter current of every node in it
RECURSIVE Recounted(_, _)
Recounted(node, d) ==
    [node EXCEPT !.subtrees = [k \in 1..Len(node.subtrees) |-> Recounted(node.subtrees[k], d)],
                 !.current = @ + d]

\* node with every counter current set to 0
RECURSIVE Uncounted(_)
Uncounted(node) ==
    [node EXCEPT !.subtrees = [k \in 1..Len(node.subtrees) |-> Uncounted(node.subtrees[k])],
                 !.current = 0]

\* the nodes of the tree under node, node included
RECURSIVE NodesOf(_)
NodesOf(node) == {node} \cup UNION {NodesOf(node.subtrees[k]) : k \in 1..Len(node.subtrees)}

\* the number of nodes of the tree under node
RECURSIVE CountOf(_)
CountOf(node) ==
    1 + SumOver([k \in 1..Len(node.subtrees) |-> CountOf(node.subtrees[k])],
                1, Len(node.subtrees))

\* the values in ai2 of all the lists the nodes under node refer to are those in ai1
SameLists(node, ai1, ai2) == \A id \in ListsOf(node) : ai2.mem[id] = ai1.mem[id]

\* the call just made ended without an exception
Returned(ai) == ai.raised = ""

\* C27: make_move selects a child of the root whose sub_score is maximal among the
\* children of the root, makes on the live engine the inputs of that child and then a
\* hard drop, and leaves that child (its engine, inputs, scores and subtrees) as the
\* root.
C27_MakeMove ==
    [][(op' = "make_move" /\ Returned(game')) =>
          \E k \in 1..Len(game.tree.subtrees) :
              /\ \A j \in 1..Len(game.tree.subtrees) :
                    game.tree.subtrees[j].sub_score <= game.tree.subtrees[k].sub_score
              /\ \E holes \in [1..Len(game.mem[game.game.pending_garbage]) -> HoleColumns] :
                    Deref(game'.game, game'.mem)
                        = hard_drop(MakeInputs(game.tree.subtrees[k].inputs,
                                               Deref(game.game, game.mem)), holes)
              /\ Uncounted(game'.tree) = Uncounted(game.tree.subtrees[k])
              /\ SameLists(game'.tree, game, game')]_vars

\* a move has been made from a tree of three levels: the root is the child chosen,
\* with its inputs and its own subtrees, and the live engine has locked a piece
C27_Witness ==
    /\ op = "make_move"
    /\ Returned(game)
    /\ game.best_n = 2
    /\ game.tree.inputs # <<>>
    /\ Len(game.tree.subtrees) = 2
    /\ game.tree.subtrees[1].sub_score # game.tree.subtrees[2].sub_score
    /\ game.mem[game.game.board] # EmptyBoard
    /\ game.mem[game.game.board] = game.mem[game.tree.game_state.board]

\* the counters and the numbers of children of the tree of ai are as they should be
WellCounted(ai) ==
    /\ ai.tree.current = 1
    /\ \A node \in NodesOf(ai.tree) :
          /\ 1 <= node.current
          /\ node.current <= ai.max_height
          /\ Len(node.subtrees) <= ai.best_n
          /\ \A k \in 1..Len(node.subtrees) : node.subtrees[k].current = node.current + 1

\* C28: after every call of generate_tree and of make_move that returns, the counter
\* current of the root is 1, that of a child is that of its parent plus 1, every
\* counter is between 1 and max_height, and every node has at most best_n children;
\* make_move lowers by exactly one the counter of every node it keeps.
C28_Counters ==
    /\ [](Returned(game) => WellCounted(game))
    /\ [][(op' = "make_move" /\ Returned(game')) =>
             \E k \in 1..Len(game.tree.subtrees) :
                 game'.tree = Recounted(game.tree.subtrees[k], 0 - 1)]_vars

\* a move has been made from a tree of three levels: the new root has counter 1 and
\* children of counter 2
C28_Witness ==
    /\ op = "make_move"
    /\ Returned(game)
    /\ game.max_height = 3
    /\ game.tree.current = 1
    /\ game.tree.subtrees # <<>>
    /\ \A k \in 1..Len(game.tree.subtrees) : game.tree.subtrees[k].current = 2

\* what GameTree.__init__ copies of an engine in state t: a new engine on the same
\* queue with the ten attributes of t
CopyOf(t) ==
    [NewGame(t.queue) EXCEPT !.queue_position = t.queue_position,
                             !.board = t.board,
                             !.current_combo = t.current_combo,
                             !.back_to_back = t.back_to_back,
                             !.hold = t.hold,
                             !.held = t.held,
                             !.held_index = t.held_index,
                             !.prev_held = t.prev_held,
                             !.pending_garbage = t.pending_garbage,
                             !.previous_action = t.previous_action]

\* the engine of every child under node is what the inputs of the child and the lock
\* make of a copy of the engine of its parent, as the parent is now
EachSimulatedAlone(ai) ==
    \A node \in NodesOf(ai.tree) :
        \A k \in 1..Len(node.subtrees) :
            \E holes \in [1..Len(ai.mem[node.game_state.pending_garbage]) -> HoleColumns] :
                Deref(node.subtrees[k].game_state, ai.mem)
                    = lock_piece(soft_drop(MakeInputs(node.subtrees[k].inputs,
                                               CopyOf(Deref(node.game_state, ai.mem)))),
                                 holes)

\* no list is held by two engines
Unshared(ai) ==
    Cardinality(ListsOf(ai.tree) \cup {ai.game.board, ai.game.pending_garbage})
        = 2 * CountOf(ai.tree) + 2

\* C29: generate_tree (with the generate_subtrees and evaluate_score calls it makes)
\* leaves the live engine as it was, board, queue_position, hold, held, current_combo,
\* back_to_back, pending_garbage and sent_garbage included; no two engines hold the
\* same list; and the engine of every child is what its own inputs make of a copy of
\* the engine of its parent, so that no simulation of a child has changed the engine
\* of its parent or of a sibling.
C29_IndependentCopies ==
    [][(op' = "generate_tree" /\ Returned(game')) =>
          /\ Deref(game'.game, game'.mem) = Deref(game.game, game.mem)
          /\ Unshared(game')
          /\ EachSimulatedAlone(game')]_vars

\* a tree of three levels has been generated while the live engine has garbage
\* pending and cells on its board
C29_Witness ==
    /\ op = "generate_tree"
    /\ Returned(game)
    /\ game.mem[game.game.pending_garbage] # <<>>
    /\ game.mem[game.game.board] # EmptyBoard
    /\ Len(game.tree.subtrees) = 2
    /\ \A k \in 1..2 : Len(game.tree.subtrees[k].subtrees) = 2

(***************************************************************************)
(* C31                                                                     *)
(***************************************************************************)
\* the back-to-back bonus of the clear that led from s to t
Bonus(s, t) ==
    IF s.back_to_back /\ Qualifying(t) /\ ~(t.spin = "mini" /\ Len(t.lock_ret[2]) = 1)
    THEN B2B_BONUS ELSE 0

\* C31: the raw attack of a clearing lock that leaves cells on the board is the base
\* of its kind (ATTACK_TABLE[lines - 1] without a spin, ATTACK_TABLE[lines + 4] for a
\* full spin or a mini spin of at least 2 rows, ATTACK_TABLE[4] for a mini spin of 1
\* row) plus the back-to-back bonus plus COMBO_TABLE[min(combo, 12)], combo being the
\* counter after its increment; every clearing lock adds one to the counter, every
\* lock that clears nothing sets it to -1, and no other call changes it.
C31_AttackSum ==
    [][/\ PartialClear =>
             game'.lock_ret[1] =
                 ATTACK_TABLE[Kind(Len(game'.lock_ret[2]), game'.spin) + 1]
                 + Bonus(game, game')
                 + COMBO_TABLE[Min(game.current_combo + 1, 12) + 1]
       /\ LockWithClear => game'.current_combo = game.current_combo + 1
       /\ LockWithoutClear => game'.current_combo = 0 - 1
       /\ ~Locked => game'.current_combo = game.current_combo]_vars

\* the third clearing lock in a row: a plain single, raw attack 1 from the combo
\* table alone
C31_Witness ==
    /\ op = "hard_drop"
    /\ game.spin = "no"
    /\ game.lock_ret = <<1, <<1>>, 0>>
    /\ game.current_combo = 2
    /\ game.sent_garbage = <<1>>

(***************************************************************************)
(* check_t_spin on its own.  Here game is the record of what the method    *)
(* reads (board, piece_position, piece_orientation, previous_action) and   *)
(* of the value it returned (ret): a "t" drawn on an empty board, at the   *)
(* walls, on the floor and away from them, with any of the cells diagonal  *)
(* to its centre filled.                                                   *)
(***************************************************************************)
\* the cells diagonal to the centre <<y, x>>, by the names check_t_spin gives them
Corner(name, y, x) ==
    CASE name = "tr" -> <<y + 1, x + 1>>
      [] name = "tl" -> <<y + 1, x - 1>>
      [] name = "br" -> <<y - 1, x + 1>>
      [] name = "bl" -> <<y - 1, x - 1>>

CornerNames == {"tr", "tl", "br", "bl"}

\* the rows and columns of the centre tried
SpinRows == {0, 1, 2, 20}
SpinCols == {0, 1, 4, 8, 9}

\* an empty board with the cells of the piece and the cells filled on it
Drawn2(cells, filled) ==
    [r \in 1..Rows |-> [c \in 1..Cols |->
        IF <<r - 1, c - 1>> \in cells THEN "t"
        ELSE IF <<r - 1, c - 1>> \in filled THEN "g"
        ELSE ""]]

TSpinInit ==
    /\ \E y \in SpinRows, x \in SpinCols, o \in 0..3, previous \in {"rotate", "move"} :
          /\ \A c \in Shape("t", <<y, x>>, o) : InBoard(c)
          /\ \E names \in SUBSET {n \in CornerNames : InBoard(Corner(n, y, x))} :
                game = [board |-> Drawn2(Shape("t", <<y, x>>, o),
                                         {Corner(n, y, x) : n \in names}),
                        piece_position |-> <<y, x>>, piece_orientation |-> o,
                        previous_action |-> previous, ret |-> "None"]
    /\ op = "new"
    /\ steps = 0

CheckTSpin ==
    /\ op = "new"
    /\ game' = [game EXCEPT !.ret = check_t_spin(game)]
    /\ op' = "check_t_spin"
    /\ steps' = steps + 1

TSpinSpec == TSpinInit /\ [][CheckTSpin]_vars

\* the corners of the piece of s that are empty
EmptyCorners(s) ==
    {n \in CornerNames :
        At(s.board, Corner(n, s.piece_position[1], s.piece_position[2])) = ""}

\* the two corners on the side of the stem of the "t" in orientation o
Designated(o) ==
    CASE o = 0 -> {"tl", "tr"}
      [] o = 1 -> {"tr", "br"}
      [] o = 2 -> {"bl", "br"}
      [] o = 3 -> {"bl", "tl"}

\* the piece of s is neither at a side wall nor on row 0
AwayFromWalls(s) ==
    s.piece_position[2] \notin {0, Cols - 1} /\ s.piece_position[1] # 0

\* C32: for a "t" whose last action was a rotation and that is neither at a side
\* wall nor on row 0, check_t_spin returns "no" when more than one of the four
\* diagonal corners is empty, "mini" when exactly one corner is empty and it is one
\* of the two designated corners of the orientation, and "t" otherwise (no corner
\* empty, or the one empty corner not a designated one).
C32_Corners ==
    (op = "check_t_spin" /\ game.previous_action = "rotate" /\ AwayFromWalls(game)) =>
        game.ret = IF Cardinality(EmptyCorners(game)) > 1 THEN "no"
                   ELSE IF EmptyCorners(game) \cap Designated(game.piece_orientation) # {}
                   THEN "mini"
                   ELSE "t"

\* a "t" in orientation 1 with only its bottom-right corner empty is a mini spin,
\* away from the walls
C32_Witness ==
    /\ op = "check_t_spin"
    /\ game.previous_action = "rotate"
    /\ game.piece_position = <<2, 4>>
    /\ game.piece_orientation = 1
    /\ EmptyCorners(game) = {"br"}
    /\ game.ret = "mini"

(***************************************************************************)
(* C33                                                                     *)
(***************************************************************************)
\* the rows of b that tiled does not list, from the bottom to the top
KeptRows(b, tiled) ==
    LET cleared == {PyIdx(tiled[k], Rows) + 1 : k \in 1..Len(tiled)}
        kept == SelectSeq([r \in 1..Rows |-> r], LAMBDA r : r \notin cleared)
    IN  [k \in 1..Len(kept) |-> b[kept[k]]]

\* C33: when lock_piece clears k rows, the board it leaves is the rows it has not
\* cleared, in their order from the bottom to the top, followed by k empty rows at
\* the top; every row cleared was full and every full row was cleared, so that no
\* row that is not full is removed or moved past another, also when the rows cleared
\* are not adjacent.
C33_RowsKeepOrder ==
    [][LockWithClear =>
          \A b \in {soft_drop(game).board} :
              /\ game'.settled = KeptRows(b, game'.lock_ret[2])
                                     \o Rep(EmptyRow, Len(game'.lock_ret[2]))
              /\ \A r \in 0..(Rows - 1) :
                    RowFull(b, r) <=> r \in {PyIdx(i, Rows) : i \in CellSet(game'.lock_ret[2])}]_vars

\* rows 0 and 2 have been cleared by an upright "i": the row between them is now
\* row 0, the row that was above them row 1
C33_Witness ==
    /\ op = "hard_drop"
    /\ game.lock_ret[2] = <<0, 2>>
    /\ game.settled[1] = <<"", "i", "i", "i", "i", "z", "z", "o", "o", "i">>
    /\ game.settled[2] = <<"j", "", "t", "t", "t", "", "l", "", "", "i">>
    /\ game.settled[3] = <<"", "", "", "", "", "l", "l", "", "", "">>
    /\ game.settled[Rows] = EmptyRow

(***************************************************************************)
(* The candidates of a node on their own.  Here game is the record of the  *)
(* engine of the node (game_state) and of the input sequences its children *)
(* are made for (subs), in the order of self.subtrees before it is pruned. *)
(* The engines are those of nodes: new games and games a few locks on,     *)
(* with and without a piece held.                                          *)
(***************************************************************************)
CandidateScripts ==
    {<<>>, <<Drop>>, <<Left, Drop, Drop>>,
     <<Hold, Drop>>, <<Hold, Drop, Drop>>, <<Drop, Hold, Drop>>,
     <<Hold, Drop, Hold, Drop>>, <<Hold, Right, Drop, Left, Drop>>}

CandidateInit ==
    /\ \E bag \in Bags, script \in CandidateScripts :
          game = [game_state |-> Inputs(script, NewGame(bag)), subs |-> <<>>]
    /\ op = "new"
    /\ steps = 0

GenerateCandidates ==
    /\ op = "new"
    /\ game' = [game EXCEPT !.subs = Candidates(game.game_state)]
    /\ op' = "generate_subtrees"
    /\ steps' = steps + 1

CandidateSpec == CandidateInit /\ [][GenerateCandidates]_vars

\* the number of places at which list holds inputs
Times(inputs, list) == Cardinality({k \in 1..Len(list) : list[k] = inputs})

\* the piece a hold would bring into play in s
Alternate(s) == IF s.held # "" THEN s.held ELSE QueueAt(s.queue, s.queue_position + 1)

\* C34: the input sequences the children of a node are made for hold each placement
\* of the piece in play exactly once and, when the piece may be held, each placement
\* of the alternate piece (the held piece, or the next piece of the queue when none
\* is held) with "hold" before it exactly once; no two children have the same inputs.
C34_EachPlacementOnce ==
    op = "generate_subtrees" =>
        \A s \in {game.game_state} :
            /\ \A p \in CellSet(get_basic_placements(Active(s))) : Times(p, game.subs) = 1
            /\ ~s.hold =>
                  \A p \in CellSet(get_basic_placements(Alternate(s))) :
                      Times(<<"hold">> \o p, game.subs) = 1
            /\ \A k \in 1..Len(game.subs) : Times(game.subs[k], game.subs) = 1

(***************************************************************************)
(* roughness and find_well on their own.  Here game is the record of the   *)
(* surface passed (surface) and of the value returned (ret).  A surface    *)
(* holds for each column the highest filled row, -1 for an empty column:   *)
(* short surfaces of all shapes, and level and stepped surfaces of the     *)
(* nine columns left once the well is taken out.                           *)
(***************************************************************************)
\* the longest of the short surfaces
MaxWidth == 4

\* the column heights tried
ColumnHeights == {0 - 1, 0, 2, 5}

SurfaceArgs ==
    UNION {[1..n -> ColumnHeights] : n \in 1..MaxWidth} \cup [1..(Cols - 1) -> {0, 2}]

SurfaceInit ==
    /\ \E surface \in SurfaceArgs : game = [surface |-> surface, ret |-> None]
    /\ op = "args"
    /\ steps = 0

Roughness ==
    /\ op = "args"
    /\ game' = [game EXCEPT !.ret = roughness(game.surface)]
    /\ op' = "roughness"
    /\ steps' = steps + 1

FindWell ==
    /\ op = "args"
    /\ game' = [game EXCEPT !.ret = find_well(game.surface)]
    /\ op' = "find_well"
    /\ steps' = steps + 1

SurfaceNext == Roughness \/ FindWell

SurfaceSpec == SurfaceInit /\ [][SurfaceNext]_vars

\* C35: roughness(surface) is the sum of the absolute differences in height of every
\* two adjacent columns of the surface, |surface[i + 1] - surface[i]| for i from 0 to
\* len - 2; the first column is not paired with the last.
C35_AdjacentDifferences ==
    op = "roughness" =>
        game.ret = SumOver([k \in 1..(Len(game.surface) - 1) |->
                               Abs(game.surface[k + 1] - game.surface[k])],
                           1, Len(game.surface) - 1)

\* C36: find_well(surface) returns the position of the deepest well: the index
\* returned is that of a column of the least height, the rightmost of them, and the
\* second component is that least height.
C36_DeepestWell ==
    op = "find_well" =>
        /\ game.ret[2] = MinOf(game.surface)
        /\ PyAt(game.surface, game.ret[1]) = MinOf(game.surface)
        /\ \A k \in 1..Len(game.surface) :
              game.surface[k] = MinOf(game.surface) => k - 1 <= game.ret[1]

(***************************************************************************)
(* C37.  rotate_cw and rotate_ccw on a piece in open space: the calls are  *)
(* made on the piece a new game spawns, turned and shifted by a player.    *)
(***************************************************************************)
TurnScripts == {<<>>, <<CW>>, <<CW, CW>>, <<CCW>>, <<CCW, CCW>>}

ShiftScripts == {<<>>, <<Left>>, <<Right>>, <<Right, Right>>, <<Sink>>}

RotationInit ==
    /\ \E bag \in Bags, turns \in TurnScripts, shifts \in ShiftScripts :
          game = Inputs(turns \o shifts, NewGame(bag))
    /\ op = "new"
    /\ steps = 0

RotationNext == RotateCW \/ RotateCCW

RotationSpec == RotationInit /\ [][RotationNext]_vars

\* the board of s holds the active piece and nothing else, and every cell within
\* three of the anchor is on the board: no wall, floor or locked cell is near
Unobstructed(s) ==
    /\ \A r \in 1..Rows : \A c \in 1..Cols :
          s.board[r][c] = IF <<r - 1, c - 1>> \in Footprint(s) THEN Active(s) ELSE ""
    /\ InBoard(<<s.piece_position[1] - 3, s.piece_position[2] - 3>>)
    /\ InBoard(<<s.piece_position[1] + 3, s.piece_position[2] + 3>>)

\* t has the piece where s has it, on the same board
SamePlacement(s, t) ==
    /\ t.piece_position = s.piece_position
    /\ t.piece_orientation = s.piece_orientation
    /\ t.board = s.board

RoundTrips == {<<CW, CCW>>, <<CCW, CW>>, <<CW, CW, CW, CW>>, <<CCW, CCW, CCW, CCW>>}

\* C37: for every piece type and orientation on an unobstructed board, rotate_cw
\* followed by rotate_ccw, rotate_ccw followed by rotate_cw, four rotate_cw and four
\* rotate_ccw each return the piece to its anchor and orientation on an identical
\* board.
C37_RotationsInverse ==
    Unobstructed(game) =>
        \A script \in RoundTrips : SamePlacement(game, Inputs(script, game))

(***************************************************************************)
(* C38.  Holds and locks from a new game.  locked lists the pieces locked  *)
(* so far, in order; nothing in the engine reads it.                       *)
(***************************************************************************)
MaxTurns == 7

HoldInit ==
    /\ \E bag \in Bags : game = [live |-> NewGame(bag), locked |-> <<>>]
    /\ op = "new"
    /\ steps = 0

HoldCurrent ==
    /\ steps < MaxTurns
    /\ game' = [game EXCEPT !.live = hold_piece(game.live)]
    /\ op' = "hold_piece"
    /\ steps' = steps + 1

DropCurrent ==
    /\ steps < MaxTurns
    /\ game' = [live |-> hard_drop(game.live, <<>>),
                locked |-> Append(game.locked, get_piece(game.live, 0))]
    /\ op' = "hard_drop"
    /\ steps' = steps + 1

HoldNext == HoldCurrent \/ DropCurrent

HoldSpec == HoldInit /\ [][HoldNext]_vars

\* the number of entries of seq that are p
Count(p, seq) == Cardinality({k \in 1..Len(seq) : seq[k] = p})

\* queue[0 .. queue_position]
Dealt(s) == [k \in 1..(s.queue_position + 1) |-> QueueAt(s.queue, k - 1)]

\* the active piece and the held one, if any
InHand(s) == <<Active(s)>> \o (IF s.held = "" THEN <<>> ELSE <<s.held>>)

\* s shows its active piece on the cells of the spawn placement
AtSpawn(s) ==
    /\ s.piece_position = Spawn
    /\ s.piece_orientation = 0
    /\ \A c \in Shape(Active(s), Spawn, 0) : At(s.board, c) = Active(s)

\* C38: in every reachable state held is '' or queue[held_index], with
\* -1 <= held_index <= queue_position, and the pieces locked so far, the held piece
\* and the active piece are together exactly queue[0 .. queue_position], each as many
\* times as it occurs there; a lock and a first hold put the queue piece at the new
\* cursor into play at spawn, and a hold made while a piece is held puts the held
\* piece into play at spawn, keeps the cursor and holds the piece that was active.
C38_HoldConserves ==
    /\ [](/\ game.live.held = ""
             \/ game.live.held = QueueAt(game.live.queue, game.live.held_index)
          /\ 0 - 1 <= game.live.held_index
          /\ game.live.held_index <= game.live.queue_position
          /\ \A p \in Pieces :
                Count(p, game.locked \o InHand(game.live)) = Count(p, Dealt(game.live)))
    /\ [][/\ (op' = "hard_drop" \/ (op' = "hold_piece" /\ ~game.live.hold /\ game.live.held = "")) =>
               /\ game'.live.queue_position = game.live.queue_position + 1
               /\ Active(game'.live) = QueueAt(game.live.queue, game'.live.queue_position)
               /\ AtSpawn(game'.live)
          /\ (op' = "hold_piece" /\ ~game.live.hold /\ game.live.held # "") =>
               /\ game'.live.queue_position = game.live.queue_position
               /\ Active(game'.live) = game.live.held
               /\ game'.live.held = Active(game.live)
               /\ AtSpawn(game'.live)
          /\ (op' = "hold_piece" /\ game.live.hold) => game'.live = game.live]_vars

\* a second swap has just been made, after three locks: the piece in play is the one
\* that was held, not the one at the cursor, and the piece held is the one at the
\* cursor
C38_Witness ==
    /\ op = "hold_piece"
    /\ Len(game.locked) = 3
    /\ game.live.hold
    /\ game.live.prev_held # ""
    /\ game.live.prev_held # game.locked[2]
    /\ Active(game.live) = game.live.prev_held
    /\ Active(game.live) # QueueAt(game.live.queue, game.live.queue_position)
    /\ game.live.held = QueueAt(game.live.queue, game.live.queue_position)
    /\ game.live.held_index = game.live.queue_position

(***************************************************************************)
(* C39                                                                     *)
(***************************************************************************)
\* the rows the piece of s occupies once it has been dropped
LockedRows(s) == {c[1] : c \in Footprint(soft_drop(s))}

\* no row of board b is full
NoFullRow(b) == \A r \in 0..(Rows - 1) : ~RowFull(b, r)

\* C39: after every lock_piece call no row of the board (as the lock leaves it,
\* before the next piece is drawn) is completely filled; the rows the lock reports
\* as cleared are at most 4, are row indices in 0..39, and are rows the locked piece
\* occupied.
C39_NoFullRowLeft ==
    [][Locked =>
          /\ NoFullRow(game'.settled)
          /\ Len(game'.lock_ret[2]) <= 4
          /\ \A k \in 1..Len(game'.lock_ret[2]) :
                /\ game'.lock_ret[2][k] \in 0..(Rows - 1)
                /\ game'.lock_ret[2][k] \in LockedRows(game)]_vars

\* an upright i piece has just cleared the four bottom rows: the scan of the rows
\* around its anchor reached below row 0
C39_Witness ==
    /\ op = "hard_drop"
    /\ game.raised = ""
    /\ game.lock_ret[2] = <<0, 1, 2, 3>>
    /\ NoFullRow(game.settled)
    /\ ~AllClear(game.settled)

(***************************************************************************)
(* C40                                                                     *)
(***************************************************************************)
\* the engine of the root of the tree of ai and the live engine of ai
RootClone(ai) == Deref(ai.tree.game_state, ai.mem)

Live(ai) == Deref(ai.game, ai.mem)

\* generate_tree finds the two boards equal and keeps the tree
Reuses(ai) == ai.mem[ai.game.board] = ai.mem[ai.tree.game_state.board]

\* the two engines agree on everything but, possibly, the garbage pending
AgreesOnPlay(c, l) ==
    /\ c.board = l.board
    /\ c.queue_position = l.queue_position
    /\ c.held = l.held
    /\ c.hold = l.hold
    /\ c.current_combo = l.current_combo
    /\ c.back_to_back = l.back_to_back

\* C40: whenever generate_tree reuses the tree instead of rebuilding it, the engine
\* of the root agrees with the live engine on board, queue cursor, held piece, hold
\* flag, combo, back-to-back and pending-garbage queue, also when the driver has
\* appended garbage to the pending queue of the live engine since the last move.
C40_ReusedRootAgrees ==
    [][(op' = "generate_tree" /\ Reuses(game)) =>
          /\ AgreesOnPlay(RootClone(game'), Live(game'))
          /\ RootClone(game').pending_garbage = Live(game').pending_garbage]_vars

============================================================================
